---- MODULE Spec2Model ----
(***************************************************************************)
(* Verification model of ha-frame-artmode-sync: the pair controller        *)
(* (pair_controller.py), the decision engine (decision.py), the Apple TV   *)
(* activity monitor (atv_client.py) and the pair mutex discipline.         *)
(*                                                                         *)
(* Time is counted in ticks of 100 seconds, so 5 minutes are 3 ticks and   *)
(* one hour is 36 ticks.  A handler that runs under the pair mutex is one  *)
(* action; durations shorter than a tick (verification sleeps, the 2 s     *)
(* service spacing) are below the resolution of the clock.                 *)
(***************************************************************************)
EXTENDS Integers, Sequences, FiniteSets, TLC

(***************************************************************************)
(* Bounds of the model.                                                    *)
(***************************************************************************)
MaxTime == 4
\* how far the wall clock is set back
JumpBack == 2
MaxCommands == 3
MaxEvents == 2
MoreEvents == 2
(***************************************************************************)
(* Program constants.                                                      *)
(***************************************************************************)
COMMAND_WINDOW == 3
DRIFT_WINDOW == 3
ONE_HOUR == 36
DEGRADED_LOG_INTERVAL == 3
BACKOFF_INITIAL == 1
BACKOFF_MULTIPLIER == 2
BACKOFF_MAX == 2

NoTime == -1

MODE == [ART |-> "art", ATV |-> "atv", OFF |-> "off"]
Modes == {MODE.ART, MODE.ATV, MODE.OFF}

PHASE ==
  [IDLE |-> "idle",
   SWITCHING_TO_ATV |-> "switching_to_atv",
   RETURNING_TO_ART |-> "returning_to_art",
   MANUAL_OVERRIDE |-> "manual_override",
   DEGRADED |-> "degraded",
   BREAKER_OPEN |-> "breaker_open",
   DRY_RUN |-> "dry_run"]

HEALTH == [OK |-> "ok", DEGRADED |-> "degraded", BREAKER_OPEN |-> "breaker_open"]

ACTION_RESULT == [SUCCESS |-> "success", FAIL |-> "fail"]

EVENT_TYPE ==
  [STARTUP |-> "startup",
   ATV_ON |-> "atv_on",
   ATV_OFF |-> "atv_off",
   TIME_WINDOW_CHANGE |-> "time_window_change",
   MANUAL |-> "manual",
   RESYNC |-> "resync",
   PRESENCE_CHANGE |-> "presence_change"]

NIGHT_BEHAVIOR ==
  [DO_NOTHING |-> "do_nothing",
   FORCE_OFF |-> "force_off",
   FORCE_ART |-> "force_art"]

PRESENCE_MODE == [DISABLED |-> "disabled", ENTITY |-> "entity"]
AWAY_POLICY ==
  [DISABLED |-> "disabled",
   TURN_TV_OFF |-> "turn_tv_off",
   KEEP_ART_ON |-> "keep_art_on"]
UNKNOWN_BEHAVIOR ==
  [IGNORE |-> "ignore",
   TREAT_AS_AWAY |-> "treat_as_away",
   TREAT_AS_HOME |-> "treat_as_home"]

\* the values of one family of labels
Range(r) == {r[k] : k \in DOMAIN r}

(***************************************************************************)
(* Decision engine (decision.py).  home_ok is "true", "false" or "none".   *)
(***************************************************************************)
\* the result with unknown presence always read as away
compute_desired_mode_away(atv_active, in_active_hours, night_behavior, presence_mode, home_ok, away_policy, unknown_behavior) ==
  IF presence_mode = PRESENCE_MODE.ENTITY /\ home_ok # "true"
        /\ away_policy = AWAY_POLICY.TURN_TV_OFF THEN MODE.OFF
  ELSE IF presence_mode = PRESENCE_MODE.ENTITY /\ home_ok # "true"
        /\ away_policy = AWAY_POLICY.KEEP_ART_ON THEN MODE.ART
  ELSE IF in_active_hours \/ night_behavior = NIGHT_BEHAVIOR.DO_NOTHING
    THEN (IF atv_active THEN MODE.ATV ELSE MODE.ART)
  ELSE IF night_behavior = NIGHT_BEHAVIOR.FORCE_OFF THEN MODE.OFF
  ELSE MODE.ART

compute_desired_mode(atv_active, in_active_hours, night_behavior, presence_mode, home_ok, away_policy, unknown_behavior) ==
  LET \* lines 97-127: normal active hours logic
      normal ==
        IF in_active_hours THEN (IF atv_active THEN MODE.ATV ELSE MODE.ART)
        ELSE IF night_behavior = NIGHT_BEHAVIOR.DO_NOTHING
          THEN (IF atv_active THEN MODE.ATV ELSE MODE.ART)
        ELSE IF night_behavior = NIGHT_BEHAVIOR.FORCE_OFF THEN MODE.OFF
        ELSE IF night_behavior = NIGHT_BEHAVIOR.FORCE_ART THEN MODE.ART
        ELSE MODE.ART
      \* lines 73-80 and 85-90: the away policy, falling through when disabled
      away ==
        IF away_policy = AWAY_POLICY.TURN_TV_OFF THEN MODE.OFF
        ELSE IF away_policy = AWAY_POLICY.KEEP_ART_ON THEN MODE.ART
        ELSE normal
  IN  IF presence_mode = PRESENCE_MODE.ENTITY THEN
        IF home_ok = "false" THEN away
        ELSE IF home_ok = "none" THEN
          IF unknown_behavior = UNKNOWN_BEHAVIOR.TREAT_AS_AWAY THEN away ELSE normal
        ELSE normal
      ELSE normal

(***************************************************************************)
(* The active window (decision.py).  A time of day is <<hour, minute,      *)
(* second>>; datetime.time values compare field by field in that order.    *)
(***************************************************************************)
time_le(a, b) ==
  \/ a[1] < b[1]
  \/ a[1] = b[1] /\ a[2] < b[2]
  \/ a[1] = b[1] /\ a[2] = b[2] /\ a[3] <= b[3]

\* the window without its end bound
is_time_in_window_open(now_time, start_time, end_time) ==
  IF time_le(start_time, end_time)
    THEN time_le(start_time, now_time) /\ time_le(now_time, end_time) /\ now_time # end_time
    ELSE time_le(start_time, now_time) \/ (time_le(now_time, end_time) /\ now_time # end_time)

is_time_in_window(now_time, start_time, end_time) ==
  IF time_le(start_time, end_time)
    THEN time_le(start_time, now_time) /\ time_le(now_time, end_time)
    ELSE time_le(start_time, now_time) \/ time_le(now_time, end_time)

(***************************************************************************)
(* State.                                                                  *)
(*   now   the clock (loop.time() and utcnow() advance together)           *)
(*   cfg   PairController.config and the wake flags                        *)
(*   ctl   the fields of one PairController, plus the trace of the last    *)
(*         handler (the fields whose names start with g)                   *)
(*   tv    the display: its art mode and how it responds                   *)
(*   env   the surroundings the controller samples: whether the wall       *)
(*         clock is inside the active window                               *)
(*   atv   the activity monitor and its tasks on the event loop            *)
(*   lk    the pair mutex and the tasks that ask for it                    *)
(***************************************************************************)
VARIABLES now, cfg, ctl, tv, env, atv, lk

loop_time == now
utcnow == now

InitCfg ==
  [ night_behavior |-> NIGHT_BEHAVIOR.FORCE_OFF,
    presence_mode |-> PRESENCE_MODE.DISABLED,
    away_policy |-> AWAY_POLICY.DISABLED,
    unknown_behavior |-> UNKNOWN_BEHAVIOR.IGNORE,
    input_mode |-> "hdmi1",
    dry_run |-> FALSE,
    enable_remote_wake |-> TRUE,
    enable_wol_fallback |-> FALSE,
    \* the durations below are in ticks
    max_commands_per_5min |-> 2,
    cooldown_seconds |-> 1,
    return_delay_seconds |-> 2,
    override_minutes |-> 2,
    drift_correction_cooldown_minutes |-> 0,
    max_drift_corrections_per_hour |-> 3,
    resync_interval_minutes |-> 2,
    startup_grace_seconds |-> 1,
    wake_startup_grace |-> 1 ]

\* PairController.__init__ followed by async_setup's task creation.
InitCtl ==
  [ enabled |-> TRUE,
    atv_active |-> FALSE,
    desired_mode |-> "none",
    previous_desired_mode |-> "none",
    actual_artmode |-> "unknown",
    in_active_hours |-> FALSE,
    home_ok |-> "none",
    phase |-> PHASE.IDLE,
    manual_override_until |-> NoTime,
    manual_override_until_monotonic |-> NoTime,
    last_trigger |-> EVENT_TYPE.STARTUP,
    last_action |-> "none",
    last_action_result |-> ACTION_RESULT.SUCCESS,
    pair_health |-> HEALTH.OK,
    cooldown_until |-> NoTime,
    cooldown_until_monotonic |-> NoTime,
    command_times |-> <<>>,
    breaker_open |-> FALSE,
    breaker_open_until |-> NoTime,
    breaker_open_until_monotonic |-> NoTime,
    connection_backoff_until |-> NoTime,
    connection_backoff_until_monotonic |-> NoTime,
    connection_backoff_delay |-> BACKOFF_INITIAL,
    last_degraded_log_time |-> NoTime,
    drift_corrections_this_hour |-> <<>>,
    last_drift_correction |-> NoTime,
    last_drift_at |-> NoTime,
    consecutive_drifts |-> 0,
    return_to_art_task |-> NoTime,
    resync_task |-> "none",
    startup_grace_task |-> "none",
    startup_time |-> 0,
    g_path |-> "none",
    g_override |-> FALSE,
    g_enforced |-> "none",
    g_gate |-> "none",
    g_read |-> "unknown",
    g_sent |-> <<>>,
    g_idem |-> FALSE,
    g_recorded |-> FALSE,
    g_verified |-> FALSE,
    g_raised |-> FALSE,
    g_drifts |-> <<>>,
    g_activated |-> FALSE,
    g_cooldown |-> FALSE,
    g_run |-> [start |-> NoTime, activations |-> 0, clean |-> FALSE] ]

(***************************************************************************)
(* The display behind FrameClient (frame_client.py).  tv.art is the art    *)
(* mode the panel really shows; tv.mode is how it answers:                 *)
(*   "ok"      reads and commands work                                     *)
(*   "silent"  reads work, commands are acknowledged but have no effect    *)
(*   "down"    unreachable: reads give Unknown, nothing can be sent        *)
(* A world w = [c, tv] is threaded through the handlers the way the        *)
(* coroutine runs through its awaits while it holds the pair mutex.        *)
(***************************************************************************)
TvModes == {"ok", "silent", "down"}

Tri(b) == IF b THEN "on" ELSE "off"

Send(w, cmd) == [w EXCEPT !.c.g_sent = Append(@, cmd)]

async_get_artmode(w) == IF w.tv.mode = "down" THEN "unknown" ELSE Tri(w.tv.art)

check_tv_reachable(w) == w.tv.mode # "down"

async_set_artmode(w, on) ==
  IF w.tv.mode = "down" THEN [w |-> w, ok |-> FALSE]
  ELSE LET w1 == Send(w, IF on THEN "set_art_on" ELSE "set_art_off")
       IN  [w |-> IF w.tv.mode = "ok" THEN [w1 EXCEPT !.tv.art = on] ELSE w1,
            ok |-> TRUE]

async_power_toggle(w) ==
  IF w.tv.mode = "down" THEN [w |-> w, ok |-> FALSE]
  ELSE [w |-> Send(w, "power_toggle"), ok |-> TRUE]

async_set_source(w) ==
  IF w.tv.mode = "down" THEN w ELSE Send(w, "set_source")

\* One verification: repeated reads until one matches; the display does not
\* change while the mutex holder waits, so every read returns the same value.
async_verify_artmode(w, expected) == async_get_artmode(w) = Tri(expected)

Verified(w) == [w EXCEPT !.c.g_verified = TRUE]

async_force_art_on(w) ==
  LET a1 == async_set_artmode(w, TRUE)
      v1 == a1.ok /\ async_verify_artmode(a1.w, TRUE)
      p2 == async_power_toggle(a1.w)
      a2 == IF p2.ok THEN async_set_artmode(p2.w, TRUE) ELSE [w |-> p2.w, ok |-> FALSE]
      v2 == p2.ok /\ a2.ok /\ async_verify_artmode(a2.w, TRUE)
      p3 == async_power_toggle(a2.w)
      q3 == async_power_toggle(p3.w)
      a3 == async_set_artmode(q3.w, TRUE)
      v3 == a3.ok /\ async_verify_artmode(a3.w, TRUE)
  IN  IF v1 THEN [w |-> Verified(a1.w), success |-> TRUE, action |-> "set_art_on"]
      ELSE IF v2 THEN [w |-> Verified(a2.w), success |-> TRUE, action |-> "power_toggle_set_art_on"]
      ELSE IF v3 THEN [w |-> Verified(a3.w), success |-> TRUE, action |-> "power_twice_set_art_on"]
      ELSE [w |-> a3.w, success |-> FALSE, action |-> "all_strategies_failed"]

async_force_art_off(w) ==
  LET a1 == async_set_artmode(w, FALSE)
      v1 == a1.ok /\ async_verify_artmode(a1.w, FALSE)
      p2 == async_power_toggle(a1.w)
      v2 == p2.ok /\ async_verify_artmode(p2.w, FALSE)
  IN  IF v1 THEN [w |-> Verified(a1.w), success |-> TRUE, action |-> "set_art_off"]
      ELSE IF v2 THEN [w |-> Verified(p2.w), success |-> TRUE, action |-> "power_toggle_set_art_off"]
      ELSE [w |-> p2.w, success |-> FALSE, action |-> "failed"]

(***************************************************************************)
(* Safety governor bookkeeping (pair_controller.py).                       *)
(***************************************************************************)
RECURSIVE PruneBefore(_, _)
PruneBefore(times, cutoff) ==
  IF times # <<>> /\ Head(times) < cutoff THEN PruneBefore(Tail(times), cutoff) ELSE times

Min(a, b) == IF a < b THEN a ELSE b

\* _record_command: the breaker branch reads DEFAULT_BREAKER_COOLDOWN_MINUTES,
\* a name the module never imports, so reaching it raises NameError before
\* any breaker field is assigned.
record_command(w) ==
  LET times == PruneBefore(Append(w.c.command_times, utcnow), utcnow - COMMAND_WINDOW)
  IN  IF Len(times) > cfg.max_commands_per_5min
        THEN [w EXCEPT !.c.command_times = times, !.c.g_raised = TRUE]
        ELSE [w EXCEPT !.c.command_times = times]

handle_command_failure(w) ==
  LET w1 == [w EXCEPT
               !.c.connection_backoff_until_monotonic = loop_time + w.c.connection_backoff_delay,
               !.c.connection_backoff_until = utcnow + w.c.connection_backoff_delay,
               !.c.connection_backoff_delay = Min(@ * BACKOFF_MULTIPLIER, BACKOFF_MAX)]
  IN  IF w.c.pair_health = HEALTH.OK
        THEN [w1 EXCEPT !.c.pair_health = HEALTH.DEGRADED, !.c.phase = PHASE.DEGRADED]
        ELSE w1

switch_to_atv_input(w) ==
  IF cfg.input_mode \in {"hdmi1", "hdmi2", "hdmi3"} THEN async_set_source(w) ELSE w

(***************************************************************************)
(* _enforce_desired_mode: the enforcement pipeline.  o is what the wake    *)
(* attempt meets: o.remote_ok, the remote accepted KEY_POWER; o.woke, the  *)
(* display answers afterwards.                                             *)
(***************************************************************************)
WakeOutcomes == [remote_ok : BOOLEAN, woke : BOOLEAN]

Gate(w, g) == [w EXCEPT !.c.g_gate = g]

\* lines 753-782: remote wake first, broadcast wake as fallback
wake_sequence(w, o) ==
  LET reach0 == check_tv_reachable(w)
      actual0 == async_get_artmode(w)
      need == actual0 = "unknown" /\ ~reach0
      remote_ok == need /\ cfg.enable_remote_wake /\ o.remote_ok
      w1 == IF remote_ok
              THEN [Send(w, "remote_wake") EXCEPT
                      !.c.last_action = "remote_wake",
                      !.tv.mode = IF o.woke THEN "ok" ELSE @]
              ELSE w
      reach1 == IF remote_ok THEN check_tv_reachable(w1) ELSE reach0
      wol == need /\ ~remote_ok /\ ~reach1 /\ cfg.enable_wol_fallback
      w2 == IF wol
              THEN [Send(w1, "wol") EXCEPT
                      !.c.last_action = "wol",
                      !.tv.mode = IF o.woke THEN "ok" ELSE @]
              ELSE w1
  IN  [w |-> w2, reachable |-> check_tv_reachable(w2), actual |-> async_get_artmode(w2)]

\* lines 784-833: the display stayed Unknown and unreachable
unreachable_exit(w) ==
  LET in_grace == /\ cfg.wake_startup_grace > 0
                  /\ utcnow - w.c.startup_time < cfg.wake_startup_grace
      should_log == ~(/\ w.c.last_degraded_log_time # NoTime
                      /\ loop_time - w.c.last_degraded_log_time < DEGRADED_LOG_INTERVAL)
      w1 == IF ~in_grace /\ (w.c.pair_health = HEALTH.OK \/ should_log)
              THEN [w EXCEPT !.c.pair_health = HEALTH.DEGRADED,
                             !.c.phase = PHASE.DEGRADED,
                             !.c.last_degraded_log_time = IF should_log THEN loop_time ELSE @]
              ELSE w
  IN  handle_command_failure(Gate(w1, "unreachable"))

\* lines 879-921: dispatch to the display for the mode transition
dispatch_command(w, desired) ==
  IF desired = MODE.ART THEN
    LET r == async_force_art_on([w EXCEPT !.c.phase = PHASE.RETURNING_TO_ART])
    IN  [r.w EXCEPT !.c.last_action = IF r.success THEN "set_art_on" ELSE r.action,
                    !.c.last_action_result =
                        IF r.success THEN ACTION_RESULT.SUCCESS ELSE ACTION_RESULT.FAIL]
  ELSE IF desired = MODE.OFF THEN
    LET r == async_set_artmode([w EXCEPT !.c.phase = PHASE.IDLE], FALSE)
        w1 == IF r.ok THEN async_power_toggle(r.w).w ELSE r.w
    IN  [w1 EXCEPT !.c.last_action = "tv_off",
                   !.c.last_action_result =
                        IF r.ok THEN ACTION_RESULT.SUCCESS ELSE ACTION_RESULT.FAIL]
  ELSE
    LET r == async_force_art_off([w EXCEPT !.c.phase = PHASE.SWITCHING_TO_ATV])
        w1 == IF r.success THEN switch_to_atv_input(r.w) ELSE r.w
    IN  [w1 EXCEPT !.c.last_action = IF r.success THEN "set_art_off" ELSE r.action,
                   !.c.last_action_result =
                        IF r.success THEN ACTION_RESULT.SUCCESS ELSE ACTION_RESULT.FAIL]

\* lines 926-944: bookkeeping on the result
result_bookkeeping(w) ==
  IF w.c.last_action_result = ACTION_RESULT.FAIL THEN handle_command_failure(w)
  ELSE LET w1 == [w EXCEPT !.c.connection_backoff_delay = BACKOFF_INITIAL,
                           !.c.connection_backoff_until_monotonic = NoTime,
                           !.c.connection_backoff_until = NoTime]
       IN  IF w.c.last_trigger # EVENT_TYPE.MANUAL
             THEN [w1 EXCEPT !.c.cooldown_until_monotonic = loop_time + cfg.cooldown_seconds,
                             !.c.cooldown_until = utcnow + cfg.cooldown_seconds,
                             !.c.g_cooldown = TRUE]
             ELSE w1

backoff_active_never(w) == FALSE

backoff_active(w) ==
  /\ w.c.connection_backoff_until_monotonic # NoTime
  /\ loop_time < w.c.connection_backoff_until_monotonic

idempotent(desired, actual) ==
  \/ desired = MODE.ART /\ actual = "on"
  \/ desired = MODE.OFF /\ actual = "off"
  \/ desired = MODE.ATV /\ actual = "off"

\* (enforce_desired_mode_live: the enforcement without its first two gates)
enforce_desired_mode_live(w0, desired, o) ==
  LET w == [w0 EXCEPT !.c.g_enforced = desired]
  IN
  IF w.c.breaker_open THEN Gate([w EXCEPT !.c.phase = PHASE.BREAKER_OPEN], "breaker")
  ELSE IF backoff_active(w) THEN Gate(w, "backoff")
  ELSE
    LET wb == [w EXCEPT !.c.connection_backoff_until_monotonic = NoTime,
                        !.c.connection_backoff_until = NoTime]
        k == wake_sequence(wb, o)
        wk == [k.w EXCEPT !.c.g_read = k.actual]
    IN
    IF k.actual = "unknown" /\ ~k.reachable THEN unreachable_exit(wk)
    ELSE
      LET wa == [wk EXCEPT !.c.actual_artmode = k.actual]
      IN
      IF idempotent(desired, k.actual) THEN
        LET wi == [wa EXCEPT !.c.phase = PHASE.IDLE, !.c.last_action = "none",
                             !.c.g_idem = TRUE]
        IN  IF desired = MODE.ATV THEN switch_to_atv_input(wi) ELSE wi
      ELSE
        LET wc == dispatch_command(wa, desired)
            wr == record_command([wc EXCEPT !.c.g_recorded = TRUE])
        IN  IF wr.c.g_raised THEN wr ELSE result_bookkeeping(wr)

enforce_desired_mode(w0, desired, o) ==
  LET w == [w0 EXCEPT !.c.g_enforced = desired]
  IN
  IF ~w.c.enabled THEN Gate([w EXCEPT !.c.phase = PHASE.IDLE], "disabled")
  ELSE IF cfg.dry_run THEN Gate([w EXCEPT !.c.phase = PHASE.DRY_RUN], "dry_run")
  ELSE IF w.c.breaker_open THEN Gate([w EXCEPT !.c.phase = PHASE.BREAKER_OPEN], "breaker")
  ELSE IF backoff_active(w) THEN Gate(w, "backoff")
  ELSE
    LET wb == [w EXCEPT !.c.connection_backoff_until_monotonic = NoTime,
                        !.c.connection_backoff_until = NoTime]
        k == wake_sequence(wb, o)
        wk == [k.w EXCEPT !.c.g_read = k.actual]
    IN
    IF k.actual = "unknown" /\ ~k.reachable THEN unreachable_exit(wk)
    ELSE
      LET wa == [wk EXCEPT !.c.actual_artmode = k.actual]
      IN
      IF idempotent(desired, k.actual) THEN
        LET wi == [wa EXCEPT !.c.phase = PHASE.IDLE, !.c.last_action = "none",
                             !.c.g_idem = TRUE]
        IN  IF desired = MODE.ATV THEN switch_to_atv_input(wi) ELSE wi
      ELSE
        LET wc == dispatch_command(wa, desired)
            wr == record_command([wc EXCEPT !.c.g_recorded = TRUE])
        IN  IF wr.c.g_raised THEN wr ELSE result_bookkeeping(wr)

(***************************************************************************)
(* _compute_and_enforce_locked and what it calls.                          *)
(***************************************************************************)
override_active(c) ==
  c.manual_override_until # NoTime /\ utcnow < c.manual_override_until

clear_override(w) ==
  [w EXCEPT !.c.manual_override_until = NoTime,
            !.c.manual_override_until_monotonic = NoTime,
            !.c.g_run.clean = FALSE]

\* _should_enforce: startup grace, then cooldown (an expired cooldown is cleared)
should_enforce(w) ==
  IF w.c.startup_grace_task \in {"sleeping", "running"}
    THEN [ok |-> FALSE, w |-> Gate(w, "startup_grace")]
  ELSE IF w.c.cooldown_until_monotonic # NoTime /\ loop_time < w.c.cooldown_until_monotonic
    THEN [ok |-> FALSE, w |-> Gate(w, "cooldown")]
  ELSE [ok |-> TRUE,
        w |-> [w EXCEPT !.c.cooldown_until_monotonic = NoTime, !.c.cooldown_until = NoTime]]

update_active_hours(w) ==
  IF w.c.in_active_hours # env.window_open
    THEN [w EXCEPT !.c.in_active_hours = env.window_open,
                   !.c.last_trigger = EVENT_TYPE.TIME_WINDOW_CHANGE]
    ELSE w

desired_of(c) ==
  compute_desired_mode(c.atv_active, c.in_active_hours, cfg.night_behavior,
                       cfg.presence_mode, c.home_ok, cfg.away_policy,
                       cfg.unknown_behavior)

\* _schedule_return_to_art: cancel-and-replace; the task sleeps until its deadline
schedule_return_to_art(w) ==
  [w EXCEPT !.c.return_to_art_task = loop_time + cfg.return_delay_seconds]

do_nothing_applies(c) ==
  ~c.in_active_hours /\ cfg.night_behavior = NIGHT_BEHAVIOR.DO_NOTHING

compute_and_enforce_locked(w0, trigger, force, o) ==
  LET se == IF force THEN [ok |-> TRUE, w |-> w0] ELSE should_enforce(w0)
  IN
  IF ~se.ok THEN se.w
  ELSE
    LET w1 == update_active_hours(se.w)
        w2 == IF trigger # "none" THEN [w1 EXCEPT !.c.last_trigger = trigger] ELSE w1
        desired == desired_of(w2.c)
        w3 == [w2 EXCEPT !.c.desired_mode = desired]
        override_until == w3.c.manual_override_until
        mono == w3.c.manual_override_until_monotonic
        in_override == override_until # NoTime /\ utcnow < override_until
        w4 == IF mono # NoTime /\ ~(loop_time < mono /\ in_override)
                THEN clear_override(w3) ELSE w3
    IN
    IF in_override /\ desired # MODE.ATV
      THEN Gate([w4 EXCEPT !.c.phase = PHASE.MANUAL_OVERRIDE], "override")
    ELSE
      LET w5 == IF in_override THEN clear_override(w4) ELSE w4
      IN
      IF desired = MODE.ART /\ ~w5.c.atv_active /\ w5.c.previous_desired_mode = MODE.ATV
        THEN [schedule_return_to_art(Gate(w5, "return_delay")) EXCEPT
                !.c.previous_desired_mode = desired]
      ELSE
        LET w6 == [w5 EXCEPT !.c.previous_desired_mode = desired]
        IN  IF ~do_nothing_applies(w6.c)
              THEN enforce_desired_mode(w6, desired, o)
              ELSE Gate([w6 EXCEPT !.c.phase = PHASE.IDLE], "do_nothing")

(***************************************************************************)
(* _async_resync: the drift corrector.                                     *)
(***************************************************************************)
is_drift(desired, actual) ==
  \/ desired = MODE.ART /\ actual # "on"
  \/ desired = MODE.ATV /\ actual = "on"
  \/ desired = MODE.OFF /\ actual # "off"

LastThree(q) == IF Len(q) > 3 THEN SubSeq(q, Len(q) - 2, Len(q)) ELSE q

\* lines 1372-1401: count the drift and activate the override
\* (count_drift_again: the activation without the test that no deadline is set)
count_drift_again(w) ==
  LET n == IF /\ w.c.last_drift_at # NoTime
              /\ utcnow - w.c.last_drift_at < DRIFT_WINDOW
             THEN w.c.consecutive_drifts + 1 ELSE 1
      w1 == [w EXCEPT !.c.consecutive_drifts = n,
                      !.c.last_drift_at = utcnow,
                      !.c.g_drifts = LastThree(Append(@, utcnow)),
                      !.c.g_run = IF n = 1
                                    THEN [start |-> utcnow, activations |-> 0,
                                          clean |-> w.c.manual_override_until = NoTime]
                                    ELSE @]
  IN  IF n >= 3
        THEN [w1 EXCEPT !.c.manual_override_until = utcnow + cfg.override_minutes,
                        !.c.manual_override_until_monotonic = loop_time + cfg.override_minutes,
                        !.c.g_activated = TRUE,
                        !.c.g_run.activations = @ + 1]
        ELSE w1

count_drift(w) ==
  LET n == IF /\ w.c.last_drift_at # NoTime
              /\ utcnow - w.c.last_drift_at < DRIFT_WINDOW
             THEN w.c.consecutive_drifts + 1 ELSE 1
      w1 == [w EXCEPT !.c.consecutive_drifts = n,
                      !.c.last_drift_at = utcnow,
                      !.c.g_drifts = LastThree(Append(@, utcnow)),
                      !.c.g_run = IF n = 1
                                    THEN [start |-> utcnow, activations |-> 0,
                                          clean |-> w.c.manual_override_until = NoTime]
                                    ELSE @]
  IN  IF n >= 3 /\ w1.c.manual_override_until = NoTime
        THEN [w1 EXCEPT !.c.manual_override_until = utcnow + cfg.override_minutes,
                        !.c.manual_override_until_monotonic = loop_time + cfg.override_minutes,
                        !.c.g_activated = TRUE,
                        !.c.g_run.activations = @ + 1]
        ELSE w1

\* (async_resync_unlimited: the corrector without its cooldown and its limit)
async_resync_unlimited(w0, o) ==
  LET w == [w0 EXCEPT !.c.drift_corrections_this_hour = PruneBefore(@, utcnow - ONE_HOUR)]
  IN
  IF override_active(w.c) THEN Gate(w, "override")
  ELSE
    LET actual == async_get_artmode(w)
        w1 == update_active_hours([w EXCEPT !.c.actual_artmode = actual, !.c.g_read = actual])
        desired == desired_of(w1.c)
    IN
    IF is_drift(desired, actual) THEN
      LET w2 == count_drift(w1)
          w3 == [w2 EXCEPT !.c.last_drift_correction = utcnow,
                           !.c.drift_corrections_this_hour = Append(@, utcnow)]
      IN  IF ~override_active(w3.c)
            THEN enforce_desired_mode(w3, desired, o)
            ELSE Gate(w3, "override")
    ELSE [w1 EXCEPT !.c.last_action = "resync",
                    !.c.last_action_result = ACTION_RESULT.SUCCESS]

async_resync(w0, o) ==
  LET w == [w0 EXCEPT !.c.drift_corrections_this_hour = PruneBefore(@, utcnow - ONE_HOUR)]
  IN
  IF /\ w.c.last_drift_correction # NoTime
     /\ utcnow - w.c.last_drift_correction < cfg.drift_correction_cooldown_minutes
    THEN Gate(w, "drift_cooldown")
  ELSE IF Len(w.c.drift_corrections_this_hour) >= cfg.max_drift_corrections_per_hour
    THEN Gate(w, "drift_limit")
  ELSE IF override_active(w.c) THEN Gate(w, "override")
  ELSE
    LET actual == async_get_artmode(w)
        w1 == update_active_hours([w EXCEPT !.c.actual_artmode = actual, !.c.g_read = actual])
        desired == desired_of(w1.c)
    IN
    IF is_drift(desired, actual) THEN
      LET w2 == count_drift(w1)
          w3 == [w2 EXCEPT !.c.last_drift_correction = utcnow,
                           !.c.drift_corrections_this_hour = Append(@, utcnow)]
      IN  IF ~override_active(w3.c)
            THEN enforce_desired_mode(w3, desired, o)
            ELSE Gate(w3, "override")
    ELSE [w1 EXCEPT !.c.last_action = "resync",
                    !.c.last_action_result = ACTION_RESULT.SUCCESS]

(***************************************************************************)
(* The activity monitor (atv_client.py).  One record, atv, holds the       *)
(* fields of one ATVClient and the part of the asyncio event loop its      *)
(* coroutines live in: the tasks it created, the loop's ready queue in     *)
(* the order the loop runs it, and the tasks that await another task.      *)
(* active_mode is playing_or_paused, the default, so the power state does  *)
(* not enter the activity value and is left out.  The fields whose names   *)
(* start with g are not fields of the program; they record what the        *)
(* listener was handed and what the subscriber was told.                   *)
(***************************************************************************)
MaxTasks == 6
DebounceTicks == 1
GraceTicks == 2
NoTask == 0
TaskIds == 1..MaxTasks

Playbacks == {"playing", "idle"}
ActivePlaybacks == {"playing", "paused"}
ConnectOutcomes == {"no_config", "not_paired", "pairing_error", "error", "success"}

NoTaskRec ==
  [kind |-> "none", st |-> "done", active |-> FALSE, pb |-> "unknown",
   on |-> NoTask, due |-> NoTime, cancel |-> FALSE, burst |-> 0]

InitAtv ==
  [connected |-> FALSE,
   current_state |-> FALSE,
   playback_state |-> "unknown",
   grace_until |-> NoTime,
   grace_seconds |-> GraceTicks,
   debounce_task |-> NoTask,
   listener_tasks |-> {},
   should_reconnect |-> TRUE,
   reconnect_task |-> FALSE,
   setup |-> "connecting",
   tasks |-> [t \in TaskIds |-> NoTaskRec],
   next_task |-> 1,
   ready |-> <<>>,
   awaiting |-> <<>>,
   g_held |-> FALSE,
   g_graced |-> {},
   g_raw_at |-> NoTime,
   g_burst |-> 0,
   g_raw_n |-> 0,
   g_raw_last |-> FALSE,
   g_commit_n |-> 0]

in_grace(a) == a.grace_until # NoTime /\ utcnow < a.grace_until

is_active(a) == a.current_state

compute_active(a) ==
  IF in_grace(a) THEN a.current_state ELSE a.playback_state \in ActivePlaybacks

done(a, t) == a.tasks[t].st = "done"

\* asyncio.create_task: the new task goes to the end of the ready queue
create_task(a, kind, active, pb, burst) ==
  [a EXCEPT !.tasks[a.next_task] =
               [NoTaskRec EXCEPT !.kind = kind, !.st = "new", !.active = active,
                                 !.pb = pb, !.burst = burst],
            !.ready = Append(@, a.next_task),
            !.next_task = @ + 1]

\* Task.cancel() on a _debounced_set task: a sleeping task is woken with
\* CancelledError, one that is queued gets it when it runs
cancel_debounce(a, d) ==
  IF d = NoTask \/ done(a, d) THEN a
  ELSE [a EXCEPT !.tasks[d].cancel = TRUE,
                 !.tasks[d].st = IF @ = "sleep" THEN "woken" ELSE @,
                 !.ready = IF a.tasks[d].st = "sleep" THEN Append(@, d) ELSE @]

\* Task.cancel() on a _set_state task: before its first step the task ends
\* without running; while it awaits the debounce task the cancellation is
\* passed on to that task, and _set_state swallows the CancelledError that
\* comes back
cancel_listener(a, t) ==
  IF done(a, t) THEN a
  ELSE IF a.tasks[t].st = "new" THEN [a EXCEPT !.tasks[t].cancel = TRUE]
  ELSE IF a.tasks[t].st = "await" THEN cancel_debounce(a, a.tasks[t].on)
  ELSE a

RECURSIVE cancel_listeners(_, _)
cancel_listeners(a, S) ==
  IF S = {} THEN a
  ELSE LET t == CHOOSE x \in S : \A y \in S : x <= y
       IN cancel_listeners(cancel_listener(a, t), S \ {t})

\* a task ended: the tasks awaiting it are queued in the order they began
\* to wait, and the done callback of a listener task discards it
finish(a, t) ==
  LET IsWaiter(x) == a.tasks[x].on = t
      ws == SelectSeq(a.awaiting, IsWaiter)
      NotWaiter(x) == a.tasks[x].on # t
  IN [a EXCEPT !.tasks = [x \in TaskIds |->
                            IF x = t THEN [a.tasks[x] EXCEPT !.st = "done"]
                            ELSE IF a.tasks[x].st = "await" /\ a.tasks[x].on = t
                                   THEN [a.tasks[x] EXCEPT !.st = "resume"]
                            ELSE a.tasks[x]],
              !.ready = @ \o ws,
              !.awaiting = SelectSeq(@, NotWaiter),
              !.listener_tasks = @ \ {t}]

\* _set_state after its await: forget the old timer, start a new one
set_state_rest(a, t) ==
  LET a1 == [a EXCEPT !.debounce_task = NoTask]
      a2 == create_task(a1, "debounced_set", a.tasks[t].active, a.tasks[t].pb, a.tasks[t].burst)
  IN finish([a2 EXCEPT !.debounce_task = a1.next_task], t)

\* _set_state from its first statement to its await or its end
set_state(a, t) ==
  IF ~a.connected /\ a.grace_until = NoTime THEN finish(a, t)
  ELSE IF a.debounce_task # NoTask
    THEN LET d == a.debounce_task
             a1 == cancel_debounce(a, d)
         IN IF done(a1, d) THEN set_state_rest(a1, t)
            ELSE [a1 EXCEPT !.tasks[t].st = "await", !.tasks[t].on = d,
                            !.awaiting = Append(@, t)]
  ELSE set_state_rest(a, t)

\* a coroutine calls _set_state itself and awaits it: the call runs at once
\* as part of the caller; a call that returns at its first test leaves no
\* trace
set_state_call(a, active, pb) ==
  LET t == a.next_task
      a1 == [a EXCEPT !.tasks[t] = [NoTaskRec EXCEPT !.kind = "set_state", !.st = "new",
                                                     !.active = active, !.pb = pb],
                      !.next_task = @ + 1]
  IN IF ~a.connected /\ a.grace_until = NoTime THEN a ELSE set_state(a1, t)

\* _debounced_set after its sleep: commit the value and tell the subscriber
debounced_set(a, d) ==
  IF ~a.connected /\ a.grace_until = NoTime THEN a
  ELSE [a EXCEPT !.current_state = a.tasks[d].active,
                 !.playback_state = a.tasks[d].pb,
                 !.g_graced = @ \cup {a.tasks[d].active},
                 !.g_commit_n = IF a.tasks[d].burst = a.g_burst THEN @ + 1 ELSE @]

\* one step of the task at the head of the ready queue
run_task(a, t) ==
  LET r == a.tasks[t]
  IN IF r.kind = "set_state"
       THEN IF r.st = "new"
              THEN IF r.cancel THEN finish(a, t) ELSE set_state(a, t)
              ELSE set_state_rest(a, t)
       ELSE IF r.cancel THEN finish(a, t)
       ELSE IF r.st = "new"
         THEN [a EXCEPT !.tasks[t].st = "sleep", !.tasks[t].due = loop_time + DebounceTicks]
       ELSE finish(debounced_set(a, t), t)

handle_disconnect(a) ==
  LET a1 == [cancel_debounce(a, a.debounce_task) EXCEPT !.debounce_task = NoTask]
      a2 == [cancel_listeners(a1, a1.listener_tasks) EXCEPT !.listener_tasks = {}]
      a3 == [a2 EXCEPT !.connected = FALSE, !.playback_state = "unknown", !.g_raw_n = 0]
  IN IF a3.current_state /\ a3.grace_seconds > 0
       THEN [a3 EXCEPT !.grace_until = utcnow + a3.grace_seconds,
                       !.g_held = IF in_grace(a) THEN @ ELSE a3.current_state,
                       !.g_graced = IF in_grace(a) THEN @ ELSE {}]
       ELSE set_state_call([a3 EXCEPT !.grace_until = NoTime], FALSE, "disconnected")

\* _update_state: read the playback state from the device and start a
\* debounce when the activity value differs from the committed one
update_state(a, pb) ==
  LET a1 == [a EXCEPT !.playback_state = pb]
      active == compute_active(a1)
  IN IF active # a1.current_state THEN set_state_call(a1, active, pb) ELSE a1

async_connect(a, outcome, pb) ==
  IF outcome = "no_config" THEN a
  ELSE IF outcome = "not_paired"
    THEN set_state_call(handle_disconnect([a EXCEPT !.should_reconnect = FALSE]),
                        FALSE, "not_paired")
  ELSE IF outcome = "pairing_error" THEN handle_disconnect(a)
  ELSE IF outcome = "success" THEN update_state([a EXCEPT !.connected = TRUE], pb)
  ELSE LET a1 == handle_disconnect(a)
       IN IF a1.should_reconnect THEN [a1 EXCEPT !.reconnect_task = TRUE] ELSE a1

async_disconnect(a) ==
  handle_disconnect([a EXCEPT !.should_reconnect = FALSE, !.reconnect_task = FALSE])

\* the listener was handed a raw value: it belongs to the burst of the raw
\* value before it when it comes less than the debounce time after it
raw(a, active) ==
  LET same == a.g_raw_at # NoTime /\ utcnow - a.g_raw_at < DebounceTicks
  IN [a EXCEPT !.g_raw_at = utcnow,
               !.g_burst = IF same THEN @ ELSE @ + 1,
               !.g_raw_n = IF same THEN @ + 1 ELSE 1,
               !.g_raw_last = active,
               !.g_commit_n = IF same THEN @ ELSE 0]

playstatus_update(a, pb) ==
  LET active == IF in_grace(a) THEN a.current_state ELSE pb \in ActivePlaybacks
      a1 == create_task(raw(a, active), "set_state", active, pb, raw(a, active).g_burst)
  IN [a1 EXCEPT !.listener_tasks = @ \cup {a.next_task}]

powerstate_update(a) ==
  LET active == compute_active(a)
      a1 == create_task(raw(a, active), "set_state", active, a.playback_state, raw(a, active).g_burst)
  IN [a1 EXCEPT !.listener_tasks = @ \cup {a.next_task}]

\* one pass of _reconnect_loop: an attempt, then the loop ends on success
\* or when reconnecting was switched off
\* (reconnect_loop_forever: the loop goes on until an attempt succeeds)
reconnect_loop_forever(a, outcome, pb) ==
  LET a1 == async_connect(a, outcome, pb)
  IN [a1 EXCEPT !.reconnect_task = outcome # "success"]

reconnect_loop(a, outcome, pb) ==
  LET a1 == async_connect(a, outcome, pb)
  IN [a1 EXCEPT !.reconnect_task = outcome # "success" /\ a1.should_reconnect]

live_timers(a) ==
  {d \in TaskIds : a.tasks[d].kind = "debounced_set" /\ ~done(a, d) /\ ~a.tasks[d].cancel}

timer_due(a, d) == a.tasks[d].st = "sleep" /\ a.tasks[d].due <= loop_time

\* the loop runs the timer handles that are due in the order of their
\* deadlines, and equal deadlines in the order they were set
next_timer(a, d) ==
  /\ timer_due(a, d)
  /\ \A e \in TaskIds \ {d} : a.tasks[e].st = "sleep" =>
        \/ a.tasks[e].due > a.tasks[d].due
        \/ a.tasks[e].due = a.tasks[d].due /\ e > d

MonitorStep(a) ==
  /\ atv' = a
  /\ UNCHANGED <<now, cfg, ctl, tv, env, lk>>

\* async_setup awaits the first async_connect
SetupConnect ==
  /\ atv.setup = "connecting"
  /\ \E outcome \in ConnectOutcomes, pb \in Playbacks :
       MonitorStep([async_connect(atv, outcome, pb) EXCEPT !.setup = "done"])

ReconnectAttempt ==
  /\ atv.reconnect_task
  /\ atv.next_task < MaxTasks
  /\ \E outcome \in ConnectOutcomes, pb \in Playbacks :
       MonitorStep(reconnect_loop(atv, outcome, pb))

\* async_cleanup disconnects the monitor when the entry is unloaded
Unload ==
  /\ atv.setup = "done"
  /\ atv.next_task <= MaxTasks
  /\ MonitorStep([async_disconnect(atv) EXCEPT !.setup = "unloaded"])

PlaystatusUpdate ==
  /\ atv.connected
  /\ atv.next_task <= MaxTasks
  /\ \E pb \in Playbacks : MonitorStep(playstatus_update(atv, pb))

PowerstateUpdate ==
  /\ atv.connected
  /\ atv.next_task <= MaxTasks
  /\ MonitorStep(powerstate_update(atv))

RunNext ==
  /\ atv.ready # <<>>
  /\ atv.tasks[Head(atv.ready)].kind = "set_state" => atv.next_task <= MaxTasks
  /\ MonitorStep(run_task([atv EXCEPT !.ready = Tail(@)], Head(atv.ready)))

TimerElapses ==
  \E d \in TaskIds :
    /\ next_timer(atv, d)
    /\ MonitorStep([atv EXCEPT !.tasks[d].st = "woken", !.ready = Append(@, d)])

MonitorTick ==
  /\ now < MaxTime
  /\ atv.ready = <<>>
  /\ \A d \in TaskIds : ~timer_due(atv, d)
  /\ now' = now + 1
  /\ UNCHANGED <<cfg, ctl, tv, env, atv, lk>>

(***************************************************************************)
(* The pair mutex.  The record lk holds the asyncio.Lock of one            *)
(* PairController (who holds it, who waits for it, in order) and the       *)
(* tasks that want the enforcement pipeline: where each one stands, and    *)
(* the controller's references to its return task and its resync task.     *)
(* What the pipeline decides is part of the controller above; here only    *)
(* its awaits matter, the places where the loop can run another task.  A   *)
(* task runs from one await to the next in one step.                       *)
(***************************************************************************)
MaxLkTasks == 3
\* how many tasks may be alive when one more arrives, where arrivals are bounded
MaxLive == 2
LkTasks == 1..MaxLkTasks

\* signal is _handle_atv_state_change; compute is any other caller of
\* _compute_and_enforce: the presence tracker, the startup grace, an entity
ComputeKinds == {"signal", "compute", "clear_override"}
EntryKinds == ComputeKinds \cup {"force", "resync_service", "resync_timer"}

\* the awaits of _enforce_desired_mode and the comparison of _async_resync
PipelineStages == {"compare", "probe", "read", "wake", "ladder", "verify"}

InitLk ==
  [holder |-> NoTask,
   waiters |-> <<>>,
   pc |-> [t \in LkTasks |-> "none"],
   kind |-> [t \in LkTasks |-> "none"],
   return_to_art_task |-> NoTask,
   resync_task |-> NoTask,
   unloaded |-> FALSE,
   left |-> {},
   torn |-> FALSE]

has_slot(l) == \E t \in LkTasks : l.pc[t] = "none"

free_slot(l) == CHOOSE t \in LkTasks : l.pc[t] = "none" /\ \A u \in LkTasks : l.pc[u] = "none" => t <= u

\* (release_kept: leaving the block does not release the lock)
release_kept(l, t) == l

\* async with self._lock, leaving, by return or by an exception
release(l, t) == IF l.holder = t THEN [l EXCEPT !.holder = NoTask] ELSE l

\* the task ends: it leaves the lock or the queue of the lock, and a
\* reference to a task that has ended counts as none
end_task(l, t) ==
  LET Other(x) == x # t
  IN [release(l, t) EXCEPT !.pc[t] = "none",
                           !.kind[t] = "none",
                           !.waiters = SelectSeq(@, Other),
                           !.return_to_art_task = IF @ = t THEN NoTask ELSE @,
                           !.resync_task = IF @ = t THEN NoTask ELSE @,
                           !.left = @ \ {t}]

\* Task.cancel(): the task ends at the await it stands at; torn records that
\* some cancel found its task between the first command of an enforcement
\* and the bookkeeping that ends it
cancel_task(l, t) ==
  [end_task(l, t) EXCEPT !.torn = @ \/ l.pc[t] \in {"wake", "ladder", "verify"}]

\* self._return_to_art_task.cancel(), when there is such a task
cancel_return(l) ==
  IF l.return_to_art_task = NoTask THEN l ELSE cancel_task(l, l.return_to_art_task)

\* _schedule_return_to_art: the new task sleeps, then asks for the lock
lk_schedule_return_to_art(l) ==
  LET l1 == cancel_return(l)
  IN IF ~has_slot(l1) THEN l1
     ELSE [l1 EXCEPT !.pc[free_slot(l1)] = "sleep",
                     !.kind[free_slot(l1)] = "return",
                     !.return_to_art_task = free_slot(l1)]

\* the tail of _async_resync_timer: the new task asks for the lock, which
\* the timer callback still holds
start_resync_task(l) ==
  IF l.resync_task # NoTask \/ ~has_slot(l) THEN l
  ELSE [l EXCEPT !.pc[free_slot(l)] = "waiting",
                 !.kind[free_slot(l)] = "resync",
                 !.waiters = Append(@, free_slot(l)),
                 !.resync_task = free_slot(l)]

\* the pipeline has begun: what began it no longer matters
in_stage(l, t, stage) == [l EXCEPT !.pc[t] = stage, !.kind[t] = "pipeline"]

\* what a task can do from the moment it holds the lock to its first await
\* in the pipeline, or to the end of its handler
under_lock(l, t, kind) ==
  IF kind \in ComputeKinds
    THEN {end_task(l, t), end_task(lk_schedule_return_to_art(l), t), in_stage(l, t, "probe")}
  ELSE IF kind = "force"
    THEN {end_task(cancel_return(l), t), in_stage(cancel_return(l), t, "probe")}
  ELSE IF kind = "return"
    THEN {end_task(l, t), in_stage(l, t, "probe")}
  ELSE IF kind = "resync_timer"
    THEN {end_task(start_resync_task(l), t)}
  ELSE {end_task(l, t), in_stage(l, t, "compare")}

\* asyncio.Lock hands the lock to a task at once only when it is free and
\* nobody waits for it
lock_free_always(l) == TRUE

lock_free(l) == l.holder = NoTask /\ l.waiters = <<>>

\* async with self._lock, entering
acquire(l, t, kind) ==
  IF lock_free(l)
    THEN under_lock([l EXCEPT !.holder = t], t, kind)
    ELSE {[l EXCEPT !.waiters = Append(@, t), !.pc[t] = "waiting", !.kind[t] = kind]}

next_stage(stage) ==
  CASE stage = "compare" -> {"probe", "none"}
    [] stage = "probe" -> {"read", "none"}
    [] stage = "read" -> {"wake", "ladder", "none"}
    [] stage = "wake" -> {"ladder", "none"}
    [] stage = "ladder" -> {"verify", "none"}
    [] stage = "verify" -> {"none"}

LkStep(l) ==
  /\ lk' = l
  /\ UNCHANGED <<now, cfg, ctl, tv, env, atv>>

\* a notification, a timer or a service call starts a task, which runs up
\* to async with self._lock; the activity handler first cancels the return
\* task when the player became active
LkArrive ==
  /\ ~lk.unloaded
  /\ has_slot(lk)
  /\ \E kind \in EntryKinds, became_active \in BOOLEAN :
       LET l == IF kind = "signal" /\ became_active THEN cancel_return(lk) ELSE lk
       IN \E l2 \in acquire(l, free_slot(l), kind) : LkStep(l2)

\* the sleep of the return task is over
LkReturnWakes ==
  \E t \in LkTasks :
    /\ lk.pc[t] = "sleep"
    /\ \E l2 \in acquire(lk, t, "return") : LkStep(l2)

\* the lock is free and its first waiter gets it
LkGrant ==
  /\ lk.holder = NoTask
  /\ lk.waiters # <<>>
  /\ LET t == Head(lk.waiters)
     IN \E l2 \in under_lock([lk EXCEPT !.holder = t, !.waiters = Tail(@)], t, lk.kind[t]) :
          LkStep(l2)

\* the pipeline goes on from one await to the next, or ends
LkAdvance ==
  \E t \in LkTasks :
    /\ lk.pc[t] \in PipelineStages
    /\ \E s \in next_stage(lk.pc[t]) :
         LkStep(IF s = "none" THEN end_task(lk, t) ELSE [lk EXCEPT !.pc[t] = s])

\* async_cleanup: the return task, the resync task and the startup grace
\* task (one of the compute tasks, when it has not ended) are cancelled and
\* awaited, the presence tracker and the resync timer are unsubscribed and
\* the clients are disconnected.  unloaded says that async_cleanup has
\* returned; left holds the activity-notification tasks that were waiting
\* for the mutex at that moment.
async_cleanup(l, grace) ==
  LET l1 == cancel_return(l)
      l2 == IF l1.resync_task = NoTask THEN l1 ELSE cancel_task(l1, l1.resync_task)
      l3 == IF grace = NoTask THEN l2 ELSE cancel_task(l2, grace)
  IN  [l3 EXCEPT !.unloaded = TRUE,
                 !.left = {t \in LkTasks : l3.kind[t] = "signal" /\ l3.pc[t] = "waiting"}]

LkCleanup ==
  /\ ~lk.unloaded
  /\ \E grace \in {NoTask} \cup {t \in LkTasks : lk.kind[t] = "compute"} :
       LkStep(async_cleanup(lk, grace))

\* a task is cancelled at an await: a service call timed out, or the loop
\* is shutting down
LkCancel ==
  \E t \in LkTasks :
    /\ lk.pc[t] # "none"
    /\ LkStep(end_task(lk, t))

(***************************************************************************)
(* Actions of the pair controller.  Each handler runs under the pair       *)
(* mutex from its first to its last statement.                             *)
(***************************************************************************)
\* The trace fields describe the handler that ran in the last step; a step
\* that is not a handler leaves an empty trace.
NoTrace(c) ==
  [c EXCEPT !.g_path = "none",
            !.g_override = FALSE,
            !.g_enforced = "none",
            !.g_gate = "none",
            !.g_read = "unknown",
            !.g_sent = <<>>,
            !.g_idem = FALSE,
            !.g_recorded = FALSE,
            !.g_verified = FALSE,
            !.g_raised = FALSE,
            !.g_activated = FALSE,
            !.g_cooldown = FALSE]

Begin(path) ==
  [c |-> [NoTrace(ctl) EXCEPT !.g_path = path, !.g_override = override_active(ctl)],
   tv |-> tv]

Commit(w) ==
  /\ Len(w.c.command_times) <= MaxCommands
  /\ ctl' = w.c
  /\ tv' = w.tv
  /\ UNCHANGED <<now, cfg, atv, lk>>

\* a timer or task of the integration itself runs
Internal(w) == Commit(w) /\ UNCHANGED env

\* something outside the integration acts: the activity signal changes or
\* somebody calls a service
External(w) ==
  /\ env.events > 0
  /\ Commit(w)
  /\ env' = [env EXCEPT !.events = @ - 1]

\* something the event loop runs before the clock reaches the next tick
TimerDue ==
  \/ ctl.return_to_art_task # NoTime /\ ctl.return_to_art_task <= now
  \/ ctl.startup_grace_task = "sleeping" /\ cfg.startup_grace_seconds <= now
  \/ env.resync_at # NoTime /\ env.resync_at <= now
  \/ ctl.resync_task = "pending"

Tick ==
  /\ now < MaxTime
  /\ ~TimerDue
  /\ now' = now + 1
  /\ ctl' = NoTrace(ctl)
  /\ UNCHANGED <<cfg, tv, env, atv, lk>>

\* the time of day crosses a bound of the active window
WindowBoundary ==
  /\ env.events > 0
  /\ env' = [env EXCEPT !.window_open = ~@, !.events = @ - 1]
  /\ ctl' = NoTrace(ctl)
  /\ UNCHANGED <<now, cfg, tv, atv, lk>>

\* somebody changes the display with its own remote
UserChangesDisplay ==
  /\ tv.mode # "down"
  /\ env.events > 0
  /\ tv' = [tv EXCEPT !.art = ~@]
  /\ env' = [env EXCEPT !.events = @ - 1]
  /\ ctl' = NoTrace(ctl)
  /\ UNCHANGED <<now, cfg, atv, lk>>

DisplayModeChange ==
  /\ env.events > 0
  /\ \E m \in TvModes \ {tv.mode} : tv' = [tv EXCEPT !.mode = m]
  /\ env' = [env EXCEPT !.events = @ - 1]
  /\ ctl' = NoTrace(ctl)
  /\ UNCHANGED <<now, cfg, atv, lk>>

\* _handle_atv_state_change followed by _compute_and_enforce
AtvStateChanged ==
  \E active \in BOOLEAN, o \in WakeOutcomes :
    /\ active # ctl.atv_active
    /\ LET w == Begin("signal")
           w1 == [w EXCEPT !.c.atv_active = active,
                           !.c.return_to_art_task = IF active THEN NoTime ELSE @,
                           !.c.last_trigger = IF active THEN EVENT_TYPE.ATV_ON
                                                        ELSE EVENT_TYPE.ATV_OFF]
       IN  External(compute_and_enforce_locked(w1, "none", FALSE, o))

\* _async_startup_grace: the task wakes and calls _compute_and_enforce itself
StartupGraceFires ==
  \E o \in WakeOutcomes :
    /\ ctl.startup_grace_task = "sleeping"
    /\ cfg.startup_grace_seconds <= now
    /\ LET w == [Begin("signal") EXCEPT !.c.startup_grace_task = "running"]
           w1 == compute_and_enforce_locked(w, "none", FALSE, o)
       IN  Internal([w1 EXCEPT !.c.startup_grace_task = "done"])

\* _return_task after its sleep
ReturnTaskFires ==
  \E o \in WakeOutcomes :
    /\ ctl.return_to_art_task # NoTime
    /\ ctl.return_to_art_task <= now
    /\ LET w == [Begin("return") EXCEPT !.c.return_to_art_task = NoTime]
       IN  Internal(IF ~w.c.atv_active /\ w.c.desired_mode = MODE.ART
                    THEN enforce_desired_mode(w, MODE.ART, o) ELSE w)

\* _async_resync_timer: prune, auto-close the breaker, spawn the resync task
\* (async_resync_timer_eager: the breaker closed without a look at the clock)
async_resync_timer_eager(w) ==
  LET w1 == [w EXCEPT
               !.c.command_times = PruneBefore(@, utcnow - COMMAND_WINDOW),
               !.c.drift_corrections_this_hour = PruneBefore(@, utcnow - ONE_HOUR)]
      w2 == IF /\ w1.c.breaker_open
               /\ w1.c.breaker_open_until_monotonic # NoTime
              THEN [w1 EXCEPT !.c.breaker_open = FALSE,
                              !.c.breaker_open_until = NoTime,
                              !.c.breaker_open_until_monotonic = NoTime,
                              !.c.pair_health = HEALTH.OK]
              ELSE w1
  IN  IF w2.c.resync_task = "pending" THEN w2
      ELSE [w2 EXCEPT !.c.resync_task = "pending"]

async_resync_timer(w) ==
  LET w1 == [w EXCEPT
               !.c.command_times = PruneBefore(@, utcnow - COMMAND_WINDOW),
               !.c.drift_corrections_this_hour = PruneBefore(@, utcnow - ONE_HOUR)]
      w2 == IF /\ w1.c.breaker_open
               /\ w1.c.breaker_open_until_monotonic # NoTime
               /\ loop_time >= w1.c.breaker_open_until_monotonic
              THEN [w1 EXCEPT !.c.breaker_open = FALSE,
                              !.c.breaker_open_until = NoTime,
                              !.c.breaker_open_until_monotonic = NoTime,
                              !.c.pair_health = HEALTH.OK]
              ELSE w1
  IN  IF w2.c.resync_task = "pending" THEN w2
      ELSE [w2 EXCEPT !.c.resync_task = "pending"]

\* async_track_time_interval calls _async_resync_timer every interval
ResyncTimer ==
  /\ env.resync_at # NoTime
  /\ env.resync_at <= now
  /\ Commit(async_resync_timer(Begin("resync_timer")))
  /\ env' = [env EXCEPT !.resync_at = @ + cfg.resync_interval_minutes]

\* _resync_with_lock
ResyncTaskRuns ==
  \E o \in WakeOutcomes :
    /\ ctl.resync_task = "pending"
    /\ LET w == [Begin("drift") EXCEPT !.c.resync_task = "done"]
       IN  Internal(async_resync(w, o))

\* async_resync (service)
ManualResync ==
  \E o \in WakeOutcomes :
    LET w == [Begin("resync_service") EXCEPT !.c.last_trigger = EVENT_TYPE.RESYNC]
    IN  External(async_resync(w, o))

\* async_force_art_on / async_force_art_off / async_force_tv_off (services)
force(w, mode, o) ==
  enforce_desired_mode([w EXCEPT !.c.last_trigger = EVENT_TYPE.MANUAL,
                                 !.c.return_to_art_task = NoTime], mode, o)

ForceArtOn == \E o \in WakeOutcomes : External(force(Begin("manual"), MODE.ART, o))

ForceArtOff == \E o \in WakeOutcomes : External(force(Begin("manual"), MODE.ATV, o))

ForceTvOff == \E o \in WakeOutcomes : External(force(Begin("manual"), MODE.OFF, o))

\* async_clear_override (service)
ClearOverride ==
  \E o \in WakeOutcomes :
    External(compute_and_enforce_locked(clear_override(Begin("clear_override")),
                                      EVENT_TYPE.MANUAL, TRUE, o))

\* async_clear_breaker (service)
async_clear_breaker(w) ==
  [w EXCEPT !.c.breaker_open = FALSE,
            !.c.breaker_open_until = NoTime,
            !.c.pair_health = HEALTH.OK]

ClearBreaker == External(async_clear_breaker(Begin("clear_breaker")))

\* the enable switch (entities/switch.py)
SwitchTurnOn ==
  \E o \in WakeOutcomes :
    LET w == [Begin("switch") EXCEPT !.c.enabled = TRUE]
    IN  External(compute_and_enforce_locked(w, "none", TRUE, o))

SwitchTurnOff == External([Begin("switch") EXCEPT !.c.enabled = FALSE])

(***************************************************************************)
(* Specifications.  Init is the controller after async_setup with the      *)
(* options in config: the timers are armed and no handler has run.  The    *)
(* surroundings, the activity signal and the callers of services act at    *)
(* most budget times in all.                                               *)
(***************************************************************************)
InitWith(config, budget) ==
  /\ now = 0
  /\ cfg = config
  /\ ctl = [InitCtl EXCEPT !.startup_grace_task =
                              IF config.startup_grace_seconds > 0 THEN "sleeping" ELSE "none"]
  /\ tv \in [art : BOOLEAN, mode : {"ok"}]
  /\ env \in [window_open : BOOLEAN,
               events : {budget},
               resync_at : {IF config.resync_interval_minutes > 0
                              THEN config.resync_interval_minutes ELSE NoTime}]
  /\ atv = InitAtv
  /\ lk = InitLk

vars == <<now, cfg, ctl, tv, env, atv, lk>>

\* The controller with its default options, dry-run off or on.
Init == \E d \in BOOLEAN : InitWith([InitCfg EXCEPT !.dry_run = d], MaxEvents)

Next ==
  \/ Tick
  \/ WindowBoundary
  \/ UserChangesDisplay
  \/ DisplayModeChange
  \/ AtvStateChanged
  \/ StartupGraceFires
  \/ ReturnTaskFires
  \/ ResyncTimer
  \/ ResyncTaskRuns
  \/ ManualResync
  \/ ForceArtOn
  \/ ForceArtOff
  \/ ForceTvOff
  \/ ClearOverride
  \/ ClearBreaker
  \/ SwitchTurnOn
  \/ SwitchTurnOff

Spec == Init /\ [][Next]_vars

\* The controller configured to leave the display alone outside the window.
SpecNight ==
  /\ InitWith([InitCfg EXCEPT !.night_behavior = NIGHT_BEHAVIOR.DO_NOTHING], MaxEvents)
  /\ [][Next]_vars

\* The activity signal, the resync timer and service, and the delayed return,
\* with a larger budget of outside events.
NextDrift ==
  \/ Tick
  \/ UserChangesDisplay
  \/ DisplayModeChange
  \/ AtvStateChanged
  \/ StartupGraceFires
  \/ ReturnTaskFires
  \/ ResyncTimer
  \/ ResyncTaskRuns
  \/ ManualResync

SpecDrift == InitWith(InitCfg, MaxEvents + MoreEvents) /\ [][NextDrift]_vars

\* The same with a resync every tick, an override of one tick and room for
\* a fourth drift correction in the hour.
InitResync ==
  InitWith([InitCfg EXCEPT !.max_drift_corrections_per_hour = 4,
                           !.resync_interval_minutes = 1,
                           !.override_minutes = 1], MaxEvents)

SpecResync == InitResync /\ [][NextDrift]_vars

\* The controller with the periodic resync switched off (interval 0) and
\* nobody but the activity signal.  Time passes and the event loop runs the
\* tasks that are due; the signal may stay silent.
SpecQuiet ==
  /\ InitWith([InitCfg EXCEPT !.resync_interval_minutes = 0], MaxEvents)
  /\ [][Tick \/ AtvStateChanged \/ StartupGraceFires \/ ReturnTaskFires]_vars
  /\ WF_vars(Tick)
  /\ WF_vars(StartupGraceFires)
  /\ WF_vars(ReturnTaskFires)

(***************************************************************************)
(* Claims about the enforcement pipeline.                                  *)
(***************************************************************************)
\* C1: an enforcement that reads a display state already matching the desired
\* mode sends no command to the display and leaves the phase Idle.
C1_Idempotence ==
  LET NotWake(cmd) == cmd \notin {"remote_wake", "wol"}
  IN ctl.g_idem => (SelectSeq(ctl.g_sent, NotWake) = <<>> /\ ctl.phase = PHASE.IDLE)

\* C2: with threshold T, the enforcement that records command T+1 of one
\* rolling window opens the breaker (flag, deadline, health, phase) and
\* completes its bookkeeping; one that records at most T leaves it closed.
C2_BreakerThreshold ==
  ctl.g_recorded =>
    IF Len(ctl.command_times) > cfg.max_commands_per_5min
      THEN /\ ctl.breaker_open
           /\ ctl.breaker_open_until # NoTime
           /\ ctl.pair_health = HEALTH.BREAKER_OPEN
           /\ ctl.phase = PHASE.BREAKER_OPEN
           /\ ~ctl.g_raised
      ELSE ~ctl.breaker_open

C4_ActivationWindow ==
  ctl.g_activated =>
    /\ Len(ctl.g_drifts) = 3
    /\ utcnow - ctl.g_drifts[1] <= DRIFT_WINDOW

\* C5: while an override is active and the decision engine does not ask for
\* Source, a handler on an automatic path (signal, delayed return, drift
\* correction) sends nothing to the display, and a signal-driven cycle that
\* reaches the override check reports phase ManualOverride.
C5_OverrideSuspends ==
  (ctl.g_override /\ ctl.g_path \in {"signal", "return", "drift"} /\ desired_of(ctl) # MODE.ATV) =>
    /\ ctl.g_sent = <<>>
    /\ ctl.g_gate = "override" => ctl.phase = PHASE.MANUAL_OVERRIDE

\* C8: an enforcement that dispatched a command records success only if a
\* read-back of the display after the command matched the expected state.
C8_VerifiedSuccess ==
  (ctl.g_recorded /\ ctl.last_action_result = ACTION_RESULT.SUCCESS) => ctl.g_verified

\* C9: while the time is outside the active window and the night behaviour is
\* do_nothing, a handler on an automatic path sends nothing to the display.
C9_DoNothing ==
  (~env.window_open /\ cfg.night_behavior = NIGHT_BEHAVIOR.DO_NOTHING
     /\ ctl.g_path \in {"signal", "return", "drift"}) => ctl.g_sent = <<>>
(***************************************************************************)
(* Claims about the cooldown.                                              *)
(***************************************************************************)
\* C11: while the monotonic cooldown deadline has not passed, a signal-driven
\* cycle that is not forced and the delayed return to Art send nothing to the
\* display; a cycle is stopped by the cooldown only before its deadline.
C11_CooldownBlocks ==
  [][ /\ (/\ ctl.cooldown_until_monotonic # NoTime
          /\ now < ctl.cooldown_until_monotonic
          /\ ctl'.g_path \in {"signal", "return"}) => ctl'.g_sent = <<>>
      /\ ctl'.g_gate = "cooldown" =>
           (ctl.cooldown_until_monotonic # NoTime /\ now < ctl.cooldown_until_monotonic)
    ]_vars
\* C12: a handler whose command succeeded starts the cooldown exactly when
\* it is not a manual force command: a force service never starts one, and
\* a signal-driven cycle, a delayed return and a drift correction always do.
C12_CooldownStarts ==
  (ctl.g_recorded /\ ~ctl.g_raised /\ ctl.last_action_result = ACTION_RESULT.SUCCESS) =>
    /\ ctl.g_path = "manual" => ~ctl.g_cooldown
    /\ ctl.g_path \in {"signal", "return", "drift"} => ctl.g_cooldown

\* C15 as stated: while the override deadline is set, a resync tick or a
\* drift detection neither activates the override again nor moves the
\* deadline, and a run of four consecutive drift detections within six
\* minutes holds exactly one activation.
C15_OneShotAnyRun ==
  /\ [][ (ctl.manual_override_until # NoTime
            /\ ctl'.g_path \in {"resync_timer", "resync_service", "drift"}) =>
           (ctl'.manual_override_until = ctl.manual_override_until /\ ~ctl'.g_activated) ]_vars
  /\ []((ctl.consecutive_drifts >= 4 /\ ctl.last_drift_at - ctl.g_run.start <= DRIFT_WINDOW) =>
          ctl.g_run.activations = 1)

\* C15: while the override deadline is set, a resync tick or a drift
\* detection neither activates the override again nor moves the deadline,
\* and a run of four consecutive drift detections within six minutes that
\* began with no deadline set, and during which no other handler cleared
\* the deadline, holds exactly one activation.
C15_OneShot ==
  /\ [][ (ctl.manual_override_until # NoTime
            /\ ctl'.g_path \in {"resync_timer", "resync_service", "drift"}) =>
           (ctl'.manual_override_until = ctl.manual_override_until /\ ~ctl'.g_activated) ]_vars
  /\ []((/\ ctl.consecutive_drifts >= 4
          /\ ctl.last_drift_at - ctl.g_run.start <= DRIFT_WINDOW
          /\ ctl.g_run.clean) => ctl.g_run.activations = 1)

\* a fourth drift of the run is detected after the override expired
C15_FourthDrift ==
  /\ ctl.g_path = "drift"
  /\ ctl.consecutive_drifts = 4
  /\ ctl.last_drift_at = now
  /\ ctl.g_run.clean
  /\ ctl.manual_override_until # NoTime
  /\ ctl.manual_override_until <= now

ClockJump ==
  LET later(t) == IF t = NoTime THEN NoTime ELSE t + JumpBack
      each(q) == [i \in 1..Len(q) |-> q[i] + JumpBack]
  IN  /\ ctl.startup_time = 0    \* the clock is set once at most
      /\ ctl' = [NoTrace(ctl) EXCEPT
                   !.manual_override_until = later(@),
                   !.cooldown_until = later(@),
                   !.breaker_open_until = later(@),
                   !.connection_backoff_until = later(@),
                   !.last_degraded_log_time = later(@),
                   !.last_drift_correction = later(@),
                   !.last_drift_at = later(@),
                   !.startup_time = later(@),
                   !.command_times = each(@),
                   !.drift_corrections_this_hour = each(@),
                   !.g_drifts = each(@),
                   !.g_run.start = later(@)]
      /\ UNCHANGED <<now, cfg, tv, env, atv, lk>>

\* Resync, drift and override as in SpecResync, with a wall clock that may be set.
SpecClock == InitResync /\ [][NextDrift \/ ClockJump]_vars

\* C29: the override blocks by monotonic time alone: a cycle of the activity
\* signal stops at the override only while the monotonic deadline of the
\* override lies ahead, wherever the wall clock stands.
C29_MonotonicOverride ==
  [][ (ctl'.g_path = "signal" /\ ctl'.g_gate = "override") =>
        /\ ctl.manual_override_until_monotonic # NoTime
        /\ loop_time < ctl.manual_override_until_monotonic ]_vars

\* _on_presence_changed: the presence entity has a new state (env.home) and
\* the callback starts _compute_and_enforce
PresenceChanged ==
  \E h \in {"true", "false"} \ {env.home}, o \in WakeOutcomes :
    /\ env.events > 0
    /\ Commit(compute_and_enforce_locked(Begin("presence"), EVENT_TYPE.PRESENCE_CHANGE, FALSE, o))
    /\ env' = [env EXCEPT !.home = h, !.events = @ - 1]

\* The controller with a presence entity, the away policy "turn the display
\* off" and the periodic resync switched off.
SpecPresence ==
  /\ \E h \in {"true", "false"} :
       /\ now = 0
       /\ cfg = [InitCfg EXCEPT !.presence_mode = PRESENCE_MODE.ENTITY,
                                 !.away_policy = AWAY_POLICY.TURN_TV_OFF,
                                 !.resync_interval_minutes = 0]
       /\ ctl = [InitCtl EXCEPT !.startup_grace_task = "sleeping"]
       /\ tv \in [art : BOOLEAN, mode : {"ok"}]
       /\ env \in [window_open : BOOLEAN, events : {MaxEvents}, resync_at : {NoTime},
                    home : {h}]
       /\ atv = InitAtv
       /\ lk = InitLk
  /\ [][Tick \/ AtvStateChanged \/ StartupGraceFires \/ ReturnTaskFires \/ PresenceChanged]_vars

\* C28: the cycle that a presence notification starts, when it gets past the
\* startup grace and the cooldown, computes the desired mode from the state
\* the presence entity has at that moment.
C28_PresenceFresh ==
  [][ (ctl'.g_path = "presence" /\ ctl'.g_gate \notin {"startup_grace", "cooldown"}) =>
        ctl'.desired_mode =
          compute_desired_mode(ctl'.atv_active, ctl'.in_active_hours, cfg.night_behavior,
                               cfg.presence_mode, env'.home, cfg.away_policy,
                               cfg.unknown_behavior) ]_vars

\* C27: a change of activity that the cooldown kept from being handled is
\* caught up later: the desired mode comes to be the one computed for the
\* activity value of that moment, without a further notification or resync.
C27_ChangeNotLost ==
  (ctl.g_path = "signal" /\ ctl.g_gate = "cooldown")
    ~> (ctl.desired_mode = desired_of([ctl EXCEPT !.in_active_hours = env.window_open]))

\* The controller with the broadcast wake enabled, the remote wake on or off.
SpecWake ==
  /\ \E r \in BOOLEAN :
       InitWith([InitCfg EXCEPT !.enable_wol_fallback = TRUE, !.enable_remote_wake = r], MaxEvents)
  /\ [][NextDrift]_vars

\* C31: with the broadcast wake enabled, a handler that sent the remote wake
\* and left the display unreachable also sent the broadcast wake, and the
\* broadcast wake is sent only to a display that was unreachable.
C31_SecondaryWake ==
  [][ LET Sent(cmd, q) == \E i \in 1..Len(q) : q[i] = cmd
      IN  /\ (Sent("remote_wake", ctl'.g_sent) /\ tv'.mode = "down") => Sent("wol", ctl'.g_sent)
          /\ Sent("wol", ctl'.g_sent) => tv.mode = "down" ]_vars

\* C32: a handler that enforces Off sends no wake, neither the power key of
\* the remote nor the broadcast packet.
C32_NoWakeForOff ==
  [][ ctl'.g_enforced = MODE.OFF =>
        \A i \in 1..Len(ctl'.g_sent) : ctl'.g_sent[i] \notin {"remote_wake", "wol"} ]_vars

\* C33: a handler that starts with the pair health degraded and ends with a
\* verified command, or finds the display already in the desired state,
\* leaves the pair health ok.
C33_HealthRecovers ==
  [][ (ctl.pair_health = HEALTH.DEGRADED /\ (ctl'.g_verified \/ ctl'.g_idem)) =>
        ctl'.pair_health = HEALTH.OK ]_vars

SpecCorrections ==
  /\ \E cd \in {0, 2} :
       InitWith([InitCfg EXCEPT !.max_drift_corrections_per_hour = 2,
                                !.resync_interval_minutes = 1,
                                !.drift_correction_cooldown_minutes = cd,
                                !.cooldown_seconds = 2], MaxEvents)
  /\ [][NextDrift]_vars

\* C36: a resync that records a drift correction comes no sooner than the
\* drift cooldown after the correction before it, leaves at most
\* max_drift_corrections_per_hour corrections in the hour that ends with it,
\* and is not stopped by the general cooldown.
C36_DriftLimits ==
  [][ LET q == ctl'.drift_corrections_this_hour
          corrected == /\ ctl'.g_path \in {"drift", "resync_service"}
                       /\ q = Append(PruneBefore(ctl.drift_corrections_this_hour, now - ONE_HOUR), now)
      IN  corrected =>
            /\ ctl.last_drift_correction # NoTime =>
                  now - ctl.last_drift_correction >= cfg.drift_correction_cooldown_minutes
            /\ Cardinality({i \in 1..Len(q) : q[i] >= now - ONE_HOUR}) <= cfg.max_drift_corrections_per_hour
            /\ ctl'.g_gate \notin {"cooldown", "drift_cooldown", "drift_limit"} ]_vars

\* the second correction of the hour, one drift cooldown after the first,
\* sent its command less than the general cooldown after the command before
C36_SecondCorrection ==
  /\ ctl.g_path = "drift"
  /\ cfg.drift_correction_cooldown_minutes > 0
  /\ Len(ctl.drift_corrections_this_hour) = 2
  /\ ctl.drift_corrections_this_hour[2] = now
  /\ now - ctl.drift_corrections_this_hour[1] = cfg.drift_correction_cooldown_minutes
  /\ ctl.g_sent # <<>>
  /\ Len(ctl.command_times) >= 2
  /\ now - ctl.command_times[Len(ctl.command_times) - 1] < cfg.cooldown_seconds

\* C37: the connection backoff delay of the display starts at its initial
\* value and stays within the maximum; an enforcement that fails multiplies
\* it by the factor up to the maximum, one that succeeds sets it back to the
\* initial value, and one that finds the state correct leaves it alone.
C37_BackoffLaw ==
  [][ LET d == ctl.connection_backoff_delay
          e == ctl'.connection_backoff_delay
          failed == \/ ctl'.g_gate = "unreachable"
                    \/ ctl'.g_recorded /\ ctl'.last_action_result = ACTION_RESULT.FAIL
          succeeded == ctl'.g_recorded /\ ctl'.last_action_result = ACTION_RESULT.SUCCESS
      IN  /\ e \in BACKOFF_INITIAL..BACKOFF_MAX
          /\ failed => e = Min(d * BACKOFF_MULTIPLIER, BACKOFF_MAX)
          /\ succeeded => e = BACKOFF_INITIAL
          /\ ctl'.g_idem => e = d ]_vars

\* C39: a handler that runs while the pair is in dry-run or disabled sends
\* nothing to the display and leaves it as it is, records no command time,
\* starts no cooldown and no backoff; an enforcement it reaches stops at the
\* disabled gate with phase Idle or at the dry-run gate with phase DryRun.
C39_NoTouch ==
  [][ (ctl'.g_path # "none" /\ (cfg.dry_run \/ ~ctl'.enabled)) =>
        /\ ctl'.g_sent = <<>>
        /\ tv' = tv
        /\ Len(ctl'.command_times) <= Len(ctl.command_times)
        /\ ctl'.cooldown_until_monotonic \in {ctl.cooldown_until_monotonic, NoTime}
        /\ ctl'.connection_backoff_until_monotonic \in {ctl.connection_backoff_until_monotonic, NoTime}
        /\ ctl'.connection_backoff_delay = ctl.connection_backoff_delay
        /\ ctl'.g_enforced # "none" => ctl'.g_gate \in {"disabled", "dry_run"}
        /\ ctl'.g_gate = "disabled" => ctl'.phase = PHASE.IDLE
        /\ ctl'.g_gate = "dry_run" => ctl'.phase = PHASE.DRY_RUN ]_vars

\* a force command under dry-run stopped at the gate while the display was
\* not in art mode
C39_DryRunForce ==
  /\ cfg.dry_run
  /\ ctl.g_path = "manual"
  /\ ctl.g_enforced = MODE.ART
  /\ ctl.g_gate = "dry_run"
  /\ ctl.phase = PHASE.DRY_RUN
  /\ ~tv.art

\* C30: inside the wake startup grace, measured from the start of the
\* controller, an enforcement that leaves at the unreachable exit (state
\* Unknown, display unreachable) turns neither the pair health nor the phase
\* to degraded.
C30_GraceSuppressesDegraded ==
  [][ (/\ ctl'.g_gate = "unreachable"
       /\ cfg.wake_startup_grace > 0
       /\ utcnow - ctl.startup_time < cfg.wake_startup_grace
       /\ ctl.pair_health = HEALTH.OK
       /\ ctl.phase # PHASE.DEGRADED) =>
        (ctl'.pair_health # HEALTH.DEGRADED /\ ctl'.phase # PHASE.DEGRADED) ]_vars

\* C25: the compute cycle that the startup grace task runs when its sleep
\* is over is not stopped by the startup-grace gate, and leaves the desired
\* mode computed.
C25_GraceEndEnforces ==
  [][ (ctl.startup_grace_task = "sleeping" /\ ctl'.startup_grace_task = "done") =>
        (ctl'.g_gate # "startup_grace" /\ ctl'.desired_mode \in Modes) ]_vars

(***************************************************************************)
(* Claims about the delayed return to Art.                                 *)
(***************************************************************************)
\* C23: while a delayed return is pending and its delay has not elapsed, no
\* handler that runs on its own (an activity notification, the periodic
\* resync) sends a command to bring the display to Art; and the return
\* task sends nothing when, at the time it wakes, the device is active
\* again or the desired mode is not Art.
C23_DelayedReturn ==
  [][ /\ (/\ ctl.return_to_art_task # NoTime
          /\ now < ctl.return_to_art_task
          /\ ctl'.g_path \in {"signal", "drift"}
          /\ ctl'.g_enforced = MODE.ART) => ctl'.g_sent = <<>>
      /\ (/\ ctl'.g_path = "return"
          /\ (ctl.atv_active \/ ctl.desired_mode # MODE.ART)) => ctl'.g_sent = <<>>
    ]_vars

(***************************************************************************)
(* Claims about the manual commands.                                       *)
(***************************************************************************)
\* C18: a force command enters the enforcement pipeline with the forced
\* mode whatever the decision engine wants and whether or not a cooldown or
\* an override is active: it is stopped only by the gates of the pipeline
\* itself, and sends commands when none of them stops it.  It sends nothing
\* when the breaker is open or the backoff has not expired, sends nothing
\* but wake commands when the display already shows the forced mode, and
\* leaves no delayed return pending.
C18_ForceDirect ==
  LET NotWake(cmd) == cmd \notin {"remote_wake", "wol"}
  IN  ctl.g_path = "manual" =>
        /\ ctl.g_enforced \in Modes
        /\ ctl.g_gate \in {"none", "disabled", "dry_run", "breaker", "backoff", "unreachable"}
        /\ (ctl.g_gate = "none" /\ ~ctl.g_idem) => ctl.g_sent # <<>>
        /\ ctl.g_gate \in {"breaker", "backoff"} => ctl.g_sent = <<>>
        /\ ctl.g_idem => SelectSeq(ctl.g_sent, NotWake) = <<>>
        /\ ctl.return_to_art_task = NoTime

(***************************************************************************)
(* The activity monitor on its own: the first connect of async_setup, the  *)
(* reconnect loop, push updates from the device, the event loop running    *)
(* the monitor's tasks and timers, and the unload of the entry.  The       *)
(* tasks of one pair and its mutex are a specification of their own.       *)
(***************************************************************************)
\* the controller idle, the monitor and the mutex as constructed
InitParts ==
  /\ now = 0
  /\ cfg = InitCfg
  /\ ctl = InitCtl
  /\ tv = [art |-> FALSE, mode |-> "ok"]
  /\ env = [window_open |-> TRUE, events |-> 0, resync_at |-> NoTime]
  /\ atv = InitAtv
  /\ lk = InitLk

NextMonitor ==
  \/ SetupConnect
  \/ ReconnectAttempt
  \/ Unload
  \/ PlaystatusUpdate
  \/ PowerstateUpdate
  \/ RunNext
  \/ TimerElapses
  \/ MonitorTick

SpecMonitor == InitParts /\ [][NextMonitor]_vars

\* C6: while the grace window that a disconnect opened has not passed, the
\* activity value the monitor exposes, and every value it delivered to its
\* subscriber since the window opened, is the value held before the
\* disconnect.
C6_GraceHolds ==
  in_grace(atv) => (is_active(atv) = atv.g_held /\ atv.g_graced \subseteq {atv.g_held})

\* C7: raw changes that each come less than the debounce time after the one
\* before leave at most one debounce timer pending at any moment, commit at
\* most one value, and once the monitor has settled have committed exactly
\* one value, the last raw one.
C7_Coalescing ==
  /\ Cardinality(live_timers(atv)) <= 1
  /\ atv.g_commit_n <= 1
  /\ (/\ atv.connected
      /\ atv.g_raw_n >= 1
      /\ atv.ready = <<>>
      /\ \A t \in TaskIds : done(atv, t)) =>
        (atv.g_commit_n = 1 /\ atv.current_state = atv.g_raw_last)

\* C26: once the grace window that a disconnect opened has passed, with the
\* monitor still disconnected and its tasks run to their end, the activity
\* value the monitor exposes is inactive.
C26_GraceExpires ==
  (/\ ~atv.connected
   /\ atv.grace_until # NoTime
   /\ utcnow >= atv.grace_until
   /\ atv.ready = <<>>
   /\ \A t \in TaskIds : done(atv, t)) => ~is_active(atv)

\* C21: once a connect attempt has met an authentication or not-paired
\* failure, and for as long as the monitor is not torn down, no reconnect
\* loop exists and the monitor is not connected: the loop that made the
\* attempt has ended and nothing starts a new one, so no further attempt
\* is made.
C21_NotPairedTerminal ==
  (atv.setup = "done" /\ ~atv.should_reconnect) => (~atv.reconnect_task /\ ~atv.connected)

\* the failure was met, time has passed since, and the monitor is still
\* neither connected nor trying
C21_LoopEnded ==
  /\ atv.setup = "done"
  /\ ~atv.should_reconnect
  /\ ~atv.reconnect_task
  /\ now > 0

\* C20: while the monitor is set up, has not been torn down, has not met an
\* authentication or not-paired failure and is not connected, a reconnect
\* loop is scheduled, so that every failed attempt, the first one of the
\* setup included, is followed by another attempt.
C20_FailureRetried ==
  (atv.setup = "done" /\ atv.should_reconnect /\ ~atv.connected) => atv.reconnect_task

\* The monitor configured with no grace time on disconnect.
InitNoGrace ==
  /\ now = 0
  /\ cfg = InitCfg
  /\ ctl = InitCtl
  /\ tv = [art |-> FALSE, mode |-> "ok"]
  /\ env = [window_open |-> TRUE, events |-> 0, resync_at |-> NoTime]
  /\ atv = [InitAtv EXCEPT !.grace_seconds = 0]
  /\ lk = InitLk

SpecNoGrace == InitNoGrace /\ [][NextMonitor]_vars

\* C19: once the monitor is disconnected with no grace window, because the
\* grace time is zero or the value held was already inactive, and its tasks
\* have run to their end, the activity value it exposes is inactive.
C19_DisconnectCommits ==
  (/\ ~atv.connected
   /\ atv.grace_until = NoTime
   /\ atv.ready = <<>>
   /\ \A t \in TaskIds : done(atv, t)) => ~is_active(atv)

(***************************************************************************)
(* The tasks of one pair and its mutex.                                    *)
(***************************************************************************)
NextLock ==
  \/ LkArrive
  \/ LkReturnWakes
  \/ LkGrant
  \/ LkAdvance
  \/ LkCancel

SpecLock == InitParts /\ [][NextLock]_vars

\* The tasks of the pair with the event loop running what is ready: a free
\* lock is handed to its first waiter and an await on the display returns.
SpecLockFair ==
  /\ InitParts
  /\ [][\/ Cardinality({t \in LkTasks : lk.pc[t] # "none"}) < MaxLive /\ LkArrive
        \/ LkReturnWakes
        \/ LkGrant
        \/ LkAdvance
        \/ LkCleanup]_vars
  /\ WF_vars(LkGrant)
  /\ WF_vars(LkAdvance)

\* C38: a task that waits for the mutex or holds it comes to the point where
\* it neither waits nor holds: a waiter is handed the mutex (or is
\* cancelled) and a holder releases it.
C38_NoDeadlock ==
  \A t \in LkTasks :
    (lk.pc[t] = "waiting" \/ lk.holder = t) ~> (lk.pc[t] # "waiting" /\ lk.holder # t)

\* an activity notification waits for the mutex while the resync task holds
\* it at the verification, after the unload has begun
C38_WaitsBehindSlow ==
  \E t \in LkTasks :
    /\ lk.pc[t] = "waiting"
    /\ lk.kind[t] = "signal"
    /\ lk.holder \notin {NoTask, t}
    /\ lk.pc[lk.holder] = "verify"
    /\ lk.unloaded

\* C24: no cancel issued by the controller (of the return task when the
\* player became active or a new return is scheduled, of the return, resync
\* and startup grace tasks at the unload) finds its task between the first
\* command of an enforcement and the bookkeeping that ends it.
C24_NoTornSequence == ~lk.torn

\* The same tasks with the unload of the entry.
SpecTeardown == InitParts /\ [][NextLock \/ LkCleanup]_vars

\* C10: at most one task of the pair is between the first and the last await
\* of the enforcement pipeline, or in the drift comparison, at any time, and
\* that task holds the pair mutex.
C10_MutualExclusion ==
  LET InPipeline == {t \in LkTasks : lk.pc[t] \in PipelineStages}
  IN /\ Cardinality(InPipeline) <= 1
     /\ \A t \in InPipeline : lk.holder = t

\* a task sends commands while another one waits for the mutex
C10_Contended ==
  \E t \in LkTasks, u \in LkTasks :
    /\ lk.pc[t] = "ladder"
    /\ lk.pc[u] = "waiting"

(***************************************************************************)
(* The decision engine and the active window on their own: the inputs are  *)
(* drawn by the initial state and one step applies the function to them.   *)
(***************************************************************************)
\* sample times of day: hours, minutes and seconds around the bounds
Times == {0, 5, 6, 12, 22, 23} \X {0, 59} \X {0, 30}
HomeOk == {"true", "false", "none"}

\* either every input of compute_desired_mode, or every clock and window
InitDecision ==
  /\ now = 0
  /\ tv = [art |-> FALSE, mode |-> "ok"]
  /\ atv = InitAtv
  /\ lk = InitLk
  /\ \/ /\ \E nb \in Range(NIGHT_BEHAVIOR), pm \in Range(PRESENCE_MODE),
              ap \in Range(AWAY_POLICY), ub \in Range(UNKNOWN_BEHAVIOR) :
              cfg = [InitCfg EXCEPT !.night_behavior = nb, !.presence_mode = pm,
                                    !.away_policy = ap, !.unknown_behavior = ub]
        /\ \E a \in BOOLEAN, h \in BOOLEAN, ok \in HomeOk :
              ctl = [InitCtl EXCEPT !.atv_active = a, !.in_active_hours = h, !.home_ok = ok]
        /\ env = [now_time |-> <<12, 0, 0>>, start_time |-> <<6, 0, 0>>, end_time |-> <<22, 0, 0>>]
     \/ /\ cfg = InitCfg
        /\ ctl = InitCtl
        /\ env \in [now_time : Times, start_time : Times, end_time : Times]

\* _compute_and_enforce_locked, lines 575-586: the call of compute_desired_mode
ComputeDesired ==
  /\ ctl.g_path = "none"
  /\ ctl' = [ctl EXCEPT !.desired_mode = desired_of(ctl), !.g_path = "decision"]
  /\ UNCHANGED <<now, cfg, tv, env, atv, lk>>

\* _update_active_hours, lines 459-461: the call of is_time_in_window
UpdateActiveHours ==
  /\ ctl.g_path = "none"
  /\ ctl' = [ctl EXCEPT !.in_active_hours =
                            is_time_in_window(env.now_time, env.start_time, env.end_time),
                        !.g_path = "window"]
  /\ UNCHANGED <<now, cfg, tv, env, atv, lk>>

SpecDecision == InitDecision /\ [][ComputeDesired \/ UpdateActiveHours]_vars

\* C13: the desired mode is the one the priority algorithm gives: with
\* presence by entity and the user away (or unknown and treated as away) the
\* away policy turn-off gives Off and keep-art gives Art; otherwise inside
\* the window Source if the device is active and Art if not; outside the
\* window force-off gives Off, force-art gives Art and do-nothing gives the
\* value of the window step.  The result is Art, Source or Off, and without
\* presence by entity it does not depend on home_ok, the away policy or the
\* unknown behaviour.
C13_DecisionPriority ==
  ctl.g_path = "decision" =>
    LET away == /\ cfg.presence_mode = PRESENCE_MODE.ENTITY
                /\ \/ ctl.home_ok = "false"
                   \/ ctl.home_ok = "none" /\ cfg.unknown_behavior = UNKNOWN_BEHAVIOR.TREAT_AS_AWAY
        step2 == IF ctl.atv_active THEN MODE.ATV ELSE MODE.ART
        step3 == CASE cfg.night_behavior = NIGHT_BEHAVIOR.FORCE_OFF -> MODE.OFF
                   [] cfg.night_behavior = NIGHT_BEHAVIOR.FORCE_ART -> MODE.ART
                   [] cfg.night_behavior = NIGHT_BEHAVIOR.DO_NOTHING -> step2
    IN  /\ (away /\ cfg.away_policy = AWAY_POLICY.TURN_TV_OFF) => ctl.desired_mode = MODE.OFF
        /\ (away /\ cfg.away_policy = AWAY_POLICY.KEEP_ART_ON) => ctl.desired_mode = MODE.ART
        /\ (~away \/ cfg.away_policy = AWAY_POLICY.DISABLED) =>
              ctl.desired_mode = IF ctl.in_active_hours THEN step2 ELSE step3
        /\ ctl.desired_mode \in Modes
        /\ cfg.presence_mode # PRESENCE_MODE.ENTITY =>
              \A ok \in HomeOk, ap \in Range(AWAY_POLICY), ub \in Range(UNKNOWN_BEHAVIOR) :
                 compute_desired_mode(ctl.atv_active, ctl.in_active_hours, cfg.night_behavior,
                                      cfg.presence_mode, ok, ap, ub) = ctl.desired_mode

\* unknown presence with the ignore behaviour falls through the away policy
C13_UnknownIgnored ==
  /\ ctl.g_path = "decision"
  /\ cfg.presence_mode = PRESENCE_MODE.ENTITY
  /\ ctl.home_ok = "none"
  /\ cfg.unknown_behavior = UNKNOWN_BEHAVIOR.IGNORE
  /\ cfg.away_policy = AWAY_POLICY.TURN_TV_OFF
  /\ ctl.in_active_hours
  /\ ctl.atv_active
  /\ ctl.desired_mode = MODE.ATV

\* C14: the clock is in the window exactly when start <= now <= end if
\* start <= end, and exactly when now >= start or now <= end if start > end,
\* both bounds included; the window 22:00-06:00 contains 23:59:00 and
\* 05:59:00 and does not contain 12:00:00.
C14_WindowMembership ==
  ctl.g_path = "window" =>
    LET secs(t) == 3600 * t[1] + 60 * t[2] + t[3]
        n == secs(env.now_time)
        s == secs(env.start_time)
        e == secs(env.end_time)
    IN  /\ s <= e => (ctl.in_active_hours <=> (s <= n /\ n <= e))
        /\ s > e => (ctl.in_active_hours <=> (n >= s \/ n <= e))
        /\ (env.start_time = <<22, 0, 0>> /\ env.end_time = <<6, 0, 0>>) =>
              /\ env.now_time \in {<<23, 59, 0>>, <<5, 59, 0>>} => ctl.in_active_hours
              /\ env.now_time = <<12, 0, 0>> => ~ctl.in_active_hours

\* the clock stands on the end bound of a window that crosses midnight
C14_OnEndBound ==
  /\ ctl.g_path = "window"
  /\ env.start_time = <<22, 0, 0>>
  /\ env.end_time = <<6, 0, 0>>
  /\ env.now_time = <<6, 0, 0>>
  /\ ctl.in_active_hours

\* C17: once async_cleanup has returned, no task of the pair that an
\* activity notification had scheduled before, and that was waiting for the
\* mutex, enters the enforcement pipeline (reading, waking or commanding
\* the display).
C17_TeardownQuiet ==
  lk.unloaded => \A t \in lk.left : lk.pc[t] \notin PipelineStages

(***************************************************************************)
(* One read and one write of the display's art mode (frame_client.py).    *)
(* A Python object is a record of its type and its content.  A reply of    *)
(* the art API is an object it returns or the content of the exception it  *)
(* raises.  The record fc, kept in tv, holds the client's failure counter   *)
(* and what the one operation did: the times it asked the art API, the     *)
(* times it reconnected and what it returned.                              *)
(***************************************************************************)
\* _looks_like_ws_event: a dict whose event starts with ms.channel, or a str
\* that contains it; an object of any other type does not look like one
looks_like_ws_event(obj) ==
  LET ms == {"ms.channel.timeOut", "ms.channel.unauthorized"}
  IN  IF obj.type = "dict" THEN obj.v \in ms
      ELSE IF obj.type = "str" THEN obj.v \in ms
      ELSE FALSE

\* _read_once: the value normalised, an event payload raised as an error
read_once(reply) ==
  IF reply.raises THEN [raised |-> TRUE, args |-> <<reply.obj>>, state |-> "none"]
  ELSE IF reply.obj.type = "bool"
    THEN [raised |-> FALSE, args |-> <<>>, state |-> Tri(reply.obj.v)]
  ELSE IF reply.obj.type = "str" /\ reply.obj.v \in {"on", "off"}
    THEN [raised |-> FALSE, args |-> <<>>, state |-> reply.obj.v]
  ELSE IF looks_like_ws_event(reply.obj)
    THEN [raised |-> TRUE, args |-> <<reply.obj>>, state |-> "none"]
  ELSE [raised |-> FALSE, args |-> <<>>, state |-> "none"]

\* async_get_artmode with a session: read, and after an error that looks
\* like an event reconnect and read once more
get_artmode(fc, first, second, connects) ==
  LET o1 == read_once(first)
      f1 == [fc EXCEPT !.g_op = "get", !.g_calls = 1]
      ex == [type |-> "exception", v |-> o1.args]
      args == [type |-> "tuple", v |-> o1.args]
      failed(f) == [f EXCEPT !.connection_failures = @ + 1, !.g_result = "none"]
  IN  IF ~o1.raised THEN [f1 EXCEPT !.g_result = o1.state]
      ELSE IF looks_like_ws_event(ex) \/ looks_like_ws_event(args)
        THEN LET f2 == [f1 EXCEPT !.connection_failures = IF connects THEN 0 ELSE @ + 1,
                                  !.g_reconnects = @ + 1,
                                  !.g_calls = 2]
                 o2 == read_once(second)
             IN  IF ~o2.raised THEN [f2 EXCEPT !.g_result = o2.state] ELSE failed(f2)
      ELSE failed(f1)

\* async_set_artmode with a session: the same shape around _set_once
set_artmode(fc, first, second, connects) ==
  LET set_once(reply) == reply.raises \/ looks_like_ws_event(reply.obj)
      args1 == <<first.obj>>
      f1 == [fc EXCEPT !.g_op = "set", !.g_calls = 1]
      ex == [type |-> "exception", v |-> args1]
      args == [type |-> "tuple", v |-> args1]
      failed(f) == [f EXCEPT !.connection_failures = @ + 1, !.g_result = "false"]
  IN  IF ~set_once(first) THEN [f1 EXCEPT !.g_result = "true"]
      ELSE IF looks_like_ws_event(ex) \/ looks_like_ws_event(args)
        THEN LET f2 == [f1 EXCEPT !.connection_failures = IF connects THEN 0 ELSE @ + 1,
                                  !.g_reconnects = @ + 1,
                                  !.g_calls = 2]
             IN  IF ~set_once(second) THEN [f2 EXCEPT !.g_result = "true"] ELSE failed(f2)
      ELSE failed(f1)

GetArtmode ==
  /\ tv.g_op = "none"
  /\ tv' = get_artmode(tv, env.first, env.second, env.connects)
  /\ UNCHANGED <<now, cfg, ctl, env, atv, lk>>

SetArtmode ==
  /\ tv.g_op = "none"
  /\ tv' = set_artmode(tv, env.first, env.second, env.connects)
  /\ UNCHANGED <<now, cfg, ctl, env, atv, lk>>

\* the replies of the art API to the first call and to a second one, and
\* whether a reconnect gets a session, drawn by the initial state
InitFrame ==
  LET Objects == [type : {"bool"}, v : BOOLEAN]
                   \cup [type : {"str"}, v : {"on", "off", "ms.channel.timeOut", "busy"}]
                   \cup [type : {"dict"}, v : {"ms.channel.timeOut", "d2d_service_message"}]
                   \cup [type : {"none"}, v : {"none"}]
      Replies == [raises : BOOLEAN, obj : Objects]
  IN  /\ now = 0
      /\ cfg = InitCfg
      /\ ctl = InitCtl
      /\ atv = InitAtv
      /\ lk = InitLk
      /\ env \in [first : Replies, second : Replies, connects : BOOLEAN]
      /\ tv = [connection_failures |-> 0, g_op |-> "none", g_calls |-> 0,
               g_reconnects |-> 0, g_result |-> "none"]

SpecFrame == InitFrame /\ [][GetArtmode \/ SetArtmode]_vars

\* C22: one read or write of the art mode whose first reply looks like a
\* session-expiry event, returned as a payload or carried by the error
\* raised, reconnects once and asks once more, and gives Unknown or false
\* when the second reply is an error too; after any other first reply it
\* neither reconnects nor asks again.
C22_RetryOnce ==
  LET stale(reply) == looks_like_ws_event(reply.obj)
      bad(reply) == reply.raises \/ stale(reply)
  IN  tv.g_op # "none" =>
        /\ stale(env.first) => (tv.g_reconnects = 1 /\ tv.g_calls = 2)
        /\ ~stale(env.first) => (tv.g_reconnects = 0 /\ tv.g_calls = 1)
        /\ (stale(env.first) /\ bad(env.second)) => tv.g_result \in {"none", "false"}

(***************************************************************************)
(* Verification and the fallback ladders (frame_client.py).  A script, kept *)
(* in env, says what the display answers during one operation: whether     *)
(* each write and each power toggle is accepted, and for each verification *)
(* which of its reads is the first to return the expected state (0: none)  *)
(* and what the other reads return.  Times are in units of the sleep        *)
(* between two reads; cost is the time one read takes.  The record kept in *)
(* tv holds what the operation did: its calls in order, the number of      *)
(* reads of a verification and what it returned.                           *)
(***************************************************************************)
MAX_ATTEMPTS == 10
VERIFY_TIMEOUT_TOTAL == 12
SLEEP_DURATION == 1
MaxReadCost == 2

\* the replies of async_get_artmode to the reads of one verification
Reads(first, filler, expected) ==
  [i \in 1..MAX_ATTEMPTS |->
      IF first # 0 /\ i >= first THEN Tri(expected)
      ELSE IF filler = "unknown" THEN "unknown" ELSE Tri(~expected)]

\* async_verify_artmode from the head of its loop: attempts reads made,
\* elapsed the time since the start
RECURSIVE verify_artmode(_, _, _, _, _)
RECURSIVE verify_artmode_lenient(_, _, _, _, _)
\* (verify_artmode_lenient: a read of Unknown counts as a match)
verify_artmode_lenient(reads, expected, cost, attempts, elapsed) ==
  IF attempts >= MAX_ATTEMPTS \/ elapsed >= VERIFY_TIMEOUT_TOTAL
    THEN [ok |-> FALSE, n |-> attempts]
  ELSE IF reads[attempts + 1] \in {Tri(expected), "unknown"}
    THEN [ok |-> TRUE, n |-> attempts + 1]
  ELSE LET remaining_time == VERIFY_TIMEOUT_TOTAL - elapsed
           slept == IF remaining_time > SLEEP_DURATION THEN SLEEP_DURATION ELSE remaining_time
       IN  verify_artmode_lenient(reads, expected, cost, attempts + 1, elapsed + cost + slept)

verify_artmode(reads, expected, cost, attempts, elapsed) ==
  IF attempts >= MAX_ATTEMPTS \/ elapsed >= VERIFY_TIMEOUT_TOTAL
    THEN [ok |-> FALSE, n |-> attempts]
  ELSE IF reads[attempts + 1] = Tri(expected)
    THEN [ok |-> TRUE, n |-> attempts + 1]
  ELSE LET remaining_time == VERIFY_TIMEOUT_TOTAL - elapsed
           slept == IF remaining_time > SLEEP_DURATION THEN SLEEP_DURATION ELSE remaining_time
       IN  verify_artmode(reads, expected, cost, attempts + 1, elapsed + cost + slept)

\* (force_art_on_through: the ladder without its early returns, every step run)
force_art_on_through(sc) ==
  LET ev(q, cmd, step, ok) == Append(q, [cmd |-> cmd, step |-> step, ok |-> ok])
      v(i) == verify_artmode(Reads(sc.first[i], sc.filler, TRUE), TRUE, sc.cost, 0, 0).ok
      setv(q, i) == IF sc.set_ok[i] THEN ev(ev(q, "set", i, TRUE), "verify", i, v(i))
                    ELSE ev(q, "set", i, FALSE)
      q1 == setv(<<>>, 1)
      q2t == ev(q1, "toggle", 2, sc.toggle_ok[1])
      q2 == IF sc.toggle_ok[1] THEN setv(q2t, 2) ELSE q2t
      q3 == setv(ev(ev(q2, "toggle", 3, sc.toggle_ok[2]), "toggle", 3, sc.toggle_ok[3]), 3)
  IN  IF sc.set_ok[3] /\ v(3)
        THEN [sent |-> q3, success |-> TRUE, action |-> "power_twice_set_art_on"]
      ELSE [sent |-> q3, success |-> FALSE, action |-> "all_strategies_failed"]

\* async_force_art_on: the calls it makes under script sc, each with the
\* ladder step it belongs to and its outcome
force_art_on(sc) ==
  LET ev(q, cmd, step, ok) == Append(q, [cmd |-> cmd, step |-> step, ok |-> ok])
      v(i) == verify_artmode(Reads(sc.first[i], sc.filler, TRUE), TRUE, sc.cost, 0, 0).ok
      setv(q, i) == IF sc.set_ok[i] THEN ev(ev(q, "set", i, TRUE), "verify", i, v(i))
                    ELSE ev(q, "set", i, FALSE)
      q1 == setv(<<>>, 1)
      q2t == ev(q1, "toggle", 2, sc.toggle_ok[1])
      q2 == IF sc.toggle_ok[1] THEN setv(q2t, 2) ELSE q2t
      q3 == setv(ev(ev(q2, "toggle", 3, sc.toggle_ok[2]), "toggle", 3, sc.toggle_ok[3]), 3)
  IN  IF sc.set_ok[1] /\ v(1)
        THEN [sent |-> q1, success |-> TRUE, action |-> "set_art_on"]
      ELSE IF sc.toggle_ok[1] /\ sc.set_ok[2] /\ v(2)
        THEN [sent |-> q2, success |-> TRUE, action |-> "power_toggle_set_art_on"]
      ELSE IF sc.set_ok[3] /\ v(3)
        THEN [sent |-> q3, success |-> TRUE, action |-> "power_twice_set_art_on"]
      ELSE [sent |-> q3, success |-> FALSE, action |-> "all_strategies_failed"]

\* async_force_art_off
force_art_off(sc) ==
  LET ev(q, cmd, step, ok) == Append(q, [cmd |-> cmd, step |-> step, ok |-> ok])
      v(i) == verify_artmode(Reads(sc.first[i], sc.filler, FALSE), FALSE, sc.cost, 0, 0).ok
      q1 == IF sc.set_ok[1] THEN ev(ev(<<>>, "set", 1, TRUE), "verify", 1, v(1))
            ELSE ev(<<>>, "set", 1, FALSE)
      q2t == ev(q1, "toggle", 2, sc.toggle_ok[1])
      q2 == IF sc.toggle_ok[1] THEN ev(q2t, "verify", 2, v(2)) ELSE q2t
  IN  IF sc.set_ok[1] /\ v(1)
        THEN [sent |-> q1, success |-> TRUE, action |-> "set_art_off"]
      ELSE IF sc.toggle_ok[1] /\ v(2)
        THEN [sent |-> q2, success |-> TRUE, action |-> "power_toggle_set_art_off"]
      ELSE [sent |-> q2, success |-> FALSE, action |-> "failed"]

\* one call of async_verify_artmode, async_force_art_on or async_force_art_off
FrameOperation ==
  /\ tv.g_op = "none"
  /\ tv' = IF env.op = "verify"
             THEN LET r == verify_artmode(Reads(env.first[1], env.filler, env.expected),
                                          env.expected, env.cost, 0, 0)
                  IN  [g_op |-> "verify", g_sent |-> <<>>, g_success |-> r.ok,
                       g_action |-> "none", g_reads |-> r.n]
             ELSE LET r == IF env.op = "on" THEN force_art_on(env) ELSE force_art_off(env)
                  IN  [g_op |-> env.op, g_sent |-> r.sent, g_success |-> r.success,
                       g_action |-> r.action, g_reads |-> 0]
  /\ UNCHANGED <<now, cfg, ctl, env, atv, lk>>

\* The scripts: a verification with its first match anywhere, reads that cost
\* up to MaxReadCost; a ladder whose verifications match at once, at the
\* third read or never.
SpecLadder ==
  /\ \E sc \in [op : {"verify"}, expected : BOOLEAN, first : [1..3 -> 0..MAX_ATTEMPTS],
                filler : {"unknown", "other"}, cost : 0..MaxReadCost,
                set_ok : {[i \in 1..3 |-> TRUE]}, toggle_ok : {[i \in 1..3 |-> TRUE]}]
           \cup [op : {"on", "off"}, expected : {TRUE}, first : [1..3 -> {0, 1, 3}],
                 filler : {"unknown", "other"}, cost : {0},
                 set_ok : [1..3 -> BOOLEAN], toggle_ok : [1..3 -> BOOLEAN]] :
       /\ (sc.op = "verify" => sc.first[2] = 0 /\ sc.first[3] = 0)
       /\ now = 0
       /\ cfg = InitCfg
       /\ ctl = InitCtl
       /\ atv = InitAtv
       /\ lk = InitLk
       /\ env = sc
       /\ tv = [g_op |-> "none", g_sent |-> <<>>, g_success |-> FALSE,
                g_action |-> "none", g_reads |-> 0]
  /\ [][FrameOperation]_vars

\* C35: a ladder makes its calls in the order of its steps (on: set and
\* verify; toggle, set and verify; toggle, toggle, set and verify; off: set
\* and verify; toggle and verify), a step begins only when no verification
\* before it matched, nothing follows a verification that matched, and the
\* ladder reports success exactly when one of its verifications matched.
C35_LadderOrder ==
  tv.g_op \in {"on", "off"} =>
    LET q == tv.g_sent
        Pattern == IF tv.g_op = "on"
                     THEN << <<"set", "verify">>, <<"toggle", "set", "verify">>,
                             <<"toggle", "toggle", "set", "verify">> >>
                     ELSE << <<"set", "verify">>, <<"toggle", "verify">> >>
        OfStep(s) == SelectSeq(q, LAMBDA e : e.step = s)
        IsPrefix(a, b) == Len(a) <= Len(b) /\ \A i \in 1..Len(a) : a[i] = b[i]
        matched(i) == q[i].cmd = "verify" /\ q[i].ok
    IN  /\ Len(q) > 0 /\ q[1].step = 1
        /\ \A i \in 1..Len(q) : q[i].step \in 1..Len(Pattern)
        /\ \A i \in 1..(Len(q) - 1) : q[i + 1].step \in {q[i].step, q[i].step + 1}
        /\ \A s \in 1..Len(Pattern) :
             IsPrefix([i \in 1..Len(OfStep(s)) |-> OfStep(s)[i].cmd], Pattern[s])
        /\ \A i \in 1..Len(q) : q[i].cmd = "verify" => (i > 1 /\ q[i - 1].ok)
        /\ \A i \in 1..Len(q) : matched(i) => i = Len(q)
        /\ tv.g_success <=> \E i \in 1..Len(q) : matched(i)

\* the on-ladder succeeded at its third step, after two verifications that
\* did not match
C35_ThirdStepVerified ==
  /\ tv.g_op = "on"
  /\ tv.g_success
  /\ tv.g_action = "power_twice_set_art_on"
  /\ Len(SelectSeq(tv.g_sent, LAMBDA e : e.cmd = "verify")) = 3

\* C40: a verification makes at most ten reads, returns true exactly when
\* one of the reads it made returned the expected state, and does not take
\* a read of Unknown for a match.
C40_VerifyBounded ==
  tv.g_op = "verify" =>
    LET reads == Reads(env.first[1], env.filler, env.expected)
    IN  /\ tv.g_reads <= MAX_ATTEMPTS
        /\ tv.g_success <=> \E i \in 1..tv.g_reads : reads[i] = Tri(env.expected)
        /\ (tv.g_reads > 0 /\ reads[tv.g_reads] = "unknown") => ~tv.g_success

\* a verification that used all ten reads, each of them Unknown
C40_TenReads ==
  /\ tv.g_op = "verify"
  /\ tv.g_reads = MAX_ATTEMPTS
  /\ ~tv.g_success
  /\ env.filler = "unknown"

====
